---------------------------- MODULE Spec2Model ----------------------------
(***************************************************************************)
(* A model of mini-agent: the durable step loop (agenticLoop, StateCache,  *)
(* AgentState) of mini-agent.js and the network file system adapters.      *)
(* Spec and SpecRecover are the loop, SpecState is AgentState's serialize  *)
(* and deserialize alone, SpecFS is an adapter alone.                      *)
(*                                                                         *)
(* Text is modelled as a sequence of character codes, a byte array as a    *)
(* sequence of numbers 0..255, a JavaScript object used as a map as a      *)
(* function whose DOMAIN is its key set.                                   *)
(***************************************************************************)
EXTENDS Integers, Sequences, FiniteSets, TLC

(***************************************************************************)
(* Bounds of the model.                                                    *)
(***************************************************************************)
\* maxSteps of the runs explored (the option's default is 10).
MaxSteps == 3
\* Largest stepCount of a caller-supplied initial state.
MaxInitialStep == 1
\* Snapshot files the operator may delete by hand between runs.
MaxDeletes == 1
\* Largest reading of Date.now() when a state alone is serialized.
MaxNow == 2
\* Calls of the fetch bridge explored for one locator.
MaxFetches == 2
\* Largest position of the open stream, length of a read, offset of a seek.
MaxPosition == 3
MaxLength == 3
MaxOffset == 2
\* Calls of fetch made on one SyncFetchWorker.
MaxJobs == 3

(***************************************************************************)
(* Generic helpers for maps (objects) and sequences.                       *)
(***************************************************************************)
EmptyMap == [k \in {} |-> <<>>]

MapSet(m, key, val) == [k \in (DOMAIN m) \cup {key} |-> IF k = key THEN val ELSE m[k]]

IsPrefix(s, t) == Len(s) <= Len(t) /\ \A i \in 1..Len(s) : s[i] = t[i]

(***************************************************************************)
(* Buffer.from(bytes).toString("base64") and Buffer.from(text, "base64").  *)
(* A base64 text is the sequence of its 6-bit digits; PadChar is '='.      *)
(***************************************************************************)
PadChar == 64

Base64Encode(bytes) ==
    LET n == Len(bytes)
        groups == (n + 2) \div 3
        pad == (3 - (n % 3)) % 3
        byteAt(i) == IF i <= n THEN bytes[i] ELSE 0
        word(g) == byteAt(3*g - 2) * 65536 + byteAt(3*g - 1) * 256 + byteAt(3*g)
        digit(g, r) == IF r = 0 THEN word(g) \div 262144
                       ELSE IF r = 1 THEN (word(g) \div 4096) % 64
                       ELSE IF r = 2 THEN (word(g) \div 64) % 64
                       ELSE word(g) % 64
    IN  [i \in 1..(4 * groups) |->
            IF i > 4 * groups - pad THEN PadChar
            ELSE digit((i + 3) \div 4, (i - 1) % 4)]

Base64Decode(text) ==
    LET m == Len(text)
        groups == m \div 4
        pad == Cardinality({i \in 1..m : text[i] = PadChar})
        sextet(i) == IF text[i] = PadChar THEN 0 ELSE text[i]
        word(g) == sextet(4*g - 3) * 262144 + sextet(4*g - 2) * 4096
                   + sextet(4*g - 1) * 64 + sextet(4*g)
        byte(k) == LET g == (k + 2) \div 3
                       r == (k - 1) % 3
                   IN  IF r = 0 THEN word(g) \div 65536
                       ELSE IF r = 1 THEN (word(g) \div 256) % 256
                       ELSE word(g) % 256
    IN  [k \in 1..(3 * groups - pad) |-> byte(k)]


(***************************************************************************)
(* Names.  A task identifier and a cache file name are sequences of the    *)
(* segments that '-' separates: "task-0" is <<TaskWord, 0>> and            *)
(* "task-0-step-2.json" is <<TaskWord, 0, StepWord, 2>>.  A remote path is *)
(* the sequence of the segments that '/' separates: "/current-ip" is       *)
(* <<"", "current-ip">>, the empty path is <<"">>.                         *)
(***************************************************************************)
TaskWord == -1
StepWord == -2
TaskId == <<TaskWord, 0>>
NullTaskId == <<>>

RootRemotePath == <<"">>

KNOWN_RESOURCES == [name \in {"current-ip"} |-> "https://icanhazip.com/"]

\* What the remote end may answer to a successful fetch.
ResponseBodies == {<<49>>, <<49, 50>>}

(***************************************************************************)
(* AgentState.  A constructor argument is a record that may lack fields;   *)
(* `a || b` yields b when a is missing or falsy.                           *)
(***************************************************************************)
JsOr(data, f, falsy, default) ==
    IF f \in DOMAIN data /\ data[f] \notin falsy THEN data[f] ELSE default

EmptyCapture == [stdout |-> <<>>, stderr |-> <<>>]

DefaultStepCount == 0

NewAgentState(data, now) ==
    [messages      |-> JsOr(data, "messages", {}, <<>>),
     stepCount     |-> JsOr(data, "stepCount", {0}, DefaultStepCount),
     outputCapture |-> JsOr(data, "outputCapture", {}, EmptyCapture),
     networkCache  |-> JsOr(data, "networkCache", {}, EmptyMap),
     outputFiles   |-> JsOr(data, "outputFiles", {}, EmptyMap),
     done          |-> JsOr(data, "done", {FALSE}, FALSE),
     metadata      |-> JsOr(data, "metadata", {},
                            [taskId |-> NullTaskId, createdAt |-> now,
                             lastModified |-> now])]

\* Mutant of serialize: the done flag is left out of the record.
serializeNoDone(s, now) ==
    [messages      |-> s.messages,
     stepCount     |-> s.stepCount,
     outputCapture |-> s.outputCapture,
     networkCache  |-> s.networkCache,
     outputFiles   |-> s.outputFiles,
     metadata      |-> [s.metadata EXCEPT !.lastModified = now]]

serialize(s, now) ==
    [messages      |-> s.messages,
     stepCount     |-> s.stepCount,
     outputCapture |-> s.outputCapture,
     networkCache  |-> s.networkCache,
     outputFiles   |-> s.outputFiles,
     done          |-> s.done,
     metadata      |-> [s.metadata EXCEPT !.lastModified = now]]

\* Mutant of deserialize: the record's outputFiles are not read.
deserializeNoFiles(data, now) ==
    NewAgentState([f \in (DOMAIN data) \ {"outputFiles"} |-> data[f]], now)

deserialize(data, now) == NewAgentState(data, now)

\* The value of the copy; which containers it shares is cloneShared.
clone(s, now) ==
    NewAgentState([messages      |-> s.messages,
                   stepCount     |-> s.stepCount,
                   outputCapture |-> s.outputCapture,
                   networkCache  |-> s.networkCache,
                   outputFiles   |-> s.outputFiles,
                   done          |-> s.done,
                   metadata      |-> s.metadata], now)

(***************************************************************************)
(* Aliasing.  The containers of an AgentState are its messages list, the   *)
(* message objects in it, and the outputCapture, networkCache, outputFiles *)
(* and metadata objects.  cloneShared(s) is the set of containers of       *)
(* s.clone() that are the very objects of s: the spreads copy one level,   *)
(* so the list is new and its elements are not.                            *)
(***************************************************************************)
Containers == {"messages", "messageObjects", "outputCapture", "networkCache",
               "outputFiles", "metadata"}

\* Mutant of cloneShared: the messages list is passed on, not copied.
cloneSharedList(s) == {"messages", "messageObjects"}

cloneShared(s) == IF s.messages # <<>> THEN {"messageObjects"} ELSE {}

(***************************************************************************)
(* captureNetworkCache / restoreNetworkCache, captureOutputFiles /         *)
(* restoreOutputFiles: the copies between the live subsystems and the      *)
(* state's fields.                                                         *)
(***************************************************************************)
captureNetworkCache(cache) == [k \in DOMAIN cache |-> Base64Encode(cache[k])]

\* Mutant of restoreNetworkCache: the base64 texts are stored as they are.
restoreNetworkCacheAsText(networkCache) == networkCache

restoreNetworkCache(networkCache) ==
    [k \in DOMAIN networkCache |-> Base64Decode(networkCache[k])]

captureOutputFiles(dir) == [f \in DOMAIN dir |-> Base64Encode(dir[f])]

\* writeFile of every entry into the directory; what is there stays.
restoreOutputFiles(dir, outputFiles) ==
    [f \in (DOMAIN dir) \cup (DOMAIN outputFiles) |->
        IF f \in DOMAIN outputFiles THEN Base64Decode(outputFiles[f]) ELSE dir[f]]

(***************************************************************************)
(* StateCache: the agent-cache directory is a map from file name to text.  *)
(* A text is [valid, value]: whether JSON.parse accepts it, and the value  *)
(* it denotes.                                                             *)
(***************************************************************************)
JsonStringify(v) == [valid |-> TRUE, value |-> v]

\* Mutant of getCachePath: the file is named after the step that follows.
getCachePathOfNext(taskId, stepCount) == taskId \o <<StepWord, stepCount + 1>>

getCachePath(taskId, stepCount) == taskId \o <<StepWord, stepCount>>

existsSync(dir, path) == path \in DOMAIN dir

NullState == [isNull |-> TRUE]

\* Mutants of loadState: the lookup is lost; the lookup reads the file after.
loadStateMissing(dir, taskId, stepCount, now) == NullState

loadStateAhead(dir, taskId, stepCount, now) ==
    LET cachePath == getCachePath(taskId, stepCount + 1)
    IN  IF ~existsSync(dir, cachePath) THEN NullState
        ELSE IF ~dir[cachePath].valid THEN NullState
        ELSE [isNull |-> FALSE, state |-> deserialize(dir[cachePath].value, now)]

\* Mutant of loadState: the text of the file is taken as it is, JSON.parse
\* never failing.
loadStateUnparsed(dir, taskId, stepCount, now) ==
    LET cachePath == getCachePath(taskId, stepCount)
    IN  IF ~existsSync(dir, cachePath) THEN NullState
        ELSE [isNull |-> FALSE, state |-> deserialize(dir[cachePath].value, now)]

loadState(dir, taskId, stepCount, now) ==
    LET cachePath == getCachePath(taskId, stepCount)
    IN  IF ~existsSync(dir, cachePath) THEN NullState
        ELSE IF ~dir[cachePath].valid THEN NullState
        ELSE [isNull |-> FALSE, state |-> deserialize(dir[cachePath].value, now)]

\* A file whose write was cut short: text that JSON.parse rejects.
Truncated == [valid |-> FALSE, value |-> <<>>]

\* Mutant of saveState: the file is named after the step before.
saveStateKeyBefore(dir, taskId, stepCount, s, now) ==
    MapSet(dir, getCachePath(taskId, stepCount - 1), JsonStringify(serialize(s, now)))

saveState(dir, taskId, stepCount, s, now) ==
    MapSet(dir, getCachePath(taskId, stepCount), JsonStringify(serialize(s, now)))

\* Mutant of clearCache: no file is unlinked.
clearCacheKeepsAll(dir, taskId) == dir

\* file.startsWith(`${taskId}-`)
StartsWithTask(file, taskId) == Len(file) > Len(taskId) /\ IsPrefix(taskId, file)

clearCache(dir, taskId) ==
    [f \in {g \in DOMAIN dir : ~StartsWithTask(g, taskId)} |-> dir[f]]

(***************************************************************************)
(* The restricted-registry adapter of mini-agent.js: lookup of a child of  *)
(* the mount root.  reply is what the fetch bridge would answer if asked:  *)
(* [ok |-> TRUE, data |-> bytes] or [ok |-> FALSE].  The result names the  *)
(* new cache, the errno thrown (0: a node is created) and the locators     *)
(* handed to the bridge.                                                   *)
(***************************************************************************)
ENOENT == 44

\* The errno of FS.writeFile on a directory.
EISDIR == 31

FetchReplies == {[ok |-> TRUE, data |-> b] : b \in ResponseBodies} \cup {[ok |-> FALSE]}

lookupKnown(cache, parentRemotePath, name, reply) ==
    LET remotePath == parentRemotePath \o <<name>>
    IN  IF remotePath \in DOMAIN cache
        THEN [cache |-> cache, errno |-> 0, fetched |-> <<>>]
        ELSE IF name \notin DOMAIN KNOWN_RESOURCES
        THEN [cache |-> cache, errno |-> ENOENT, fetched |-> <<>>]
        ELSE IF reply.ok
        THEN [cache |-> MapSet(cache, remotePath, reply.data), errno |-> 0,
              fetched |-> <<KNOWN_RESOURCES[name]>>]
        ELSE [cache |-> cache, errno |-> ENOENT,
              fetched |-> <<KNOWN_RESOURCES[name]>>]

\* stream_ops.read of the whole file from position 0.
readAll(cache, remotePath) ==
    IF remotePath \notin DOMAIN cache THEN <<>> ELSE cache[remotePath]

(***************************************************************************)
(* The sandbox.  The collaborator's code is one of a few programs:         *)
(*   read_ip   print(open('/network/current-ip').read())                   *)
(*   write_a   writes /output/a     write_b   writes /output/b             *)
(*   raise     prints, then raises                                         *)
(* runPython gives the effect of running one: the new cache, node set and  *)
(* output directory, what the stdout and stderr handlers received, and     *)
(* whether runPythonAsync rejected (with ErrorMessage).                    *)
(***************************************************************************)
Programs == {"read_ip", "write_a", "write_b", "raise"}

ErrorMessage == <<69>>

FileBytes == [a |-> <<97>>, b |-> <<98, 98>>]

runPython(code, cache, nodeSet, dir, reply) ==
    LET same == [cache |-> cache, nodes |-> nodeSet, dir |-> dir,
                 out |-> <<>>, err |-> <<>>, raised |-> FALSE]
    IN  CASE code = "read_ip" ->
               LET hit == "current-ip" \in nodeSet
                   lk == IF hit THEN [cache |-> cache, errno |-> 0, fetched |-> <<>>]
                         ELSE lookupKnown(cache, RootRemotePath, "current-ip", reply)
               IN  IF lk.errno # 0
                   THEN [same EXCEPT !.raised = TRUE]
                   ELSE [same EXCEPT !.cache = lk.cache,
                                     !.nodes = nodeSet \cup {"current-ip"},
                                     !.out = readAll(lk.cache, RootRemotePath \o <<"current-ip">>)]
          [] code = "write_a" -> [same EXCEPT !.dir = MapSet(dir, "a", FileBytes.a)]
          [] code = "write_b" -> [same EXCEPT !.dir = MapSet(dir, "b", FileBytes.b)]
          [] OTHER -> [same EXCEPT !.out = <<33>>, !.raised = TRUE]

\* Mutant of executePythonCode: the catch branch reports no failure.
executePythonCodeSwallows(capture, raised) ==
    [stdout |-> capture.stdout, stderr |-> capture.stderr, success |-> TRUE]

\* executePythonCode: the tool result read from the state's outputCapture.
executePythonCode(capture, raised) ==
    IF raised
    THEN [stdout |-> capture.stdout, stderr |-> capture.stderr \o ErrorMessage,
          success |-> FALSE]
    ELSE [stdout |-> capture.stdout, stderr |-> capture.stderr, success |-> TRUE]

(***************************************************************************)
(* The state of the durable step loop.                                     *)
(***************************************************************************)
VARIABLES
    cacheFiles,    \* the agent-cache directory: file name -> text
    initialState,  \* the caller's AgentState, the argument of agenticLoop
    useCache,      \* options.useCache of the task's runs
    pc,            \* where the process is
    state,         \* agenticLoop's local `state`
    aliased,       \* the containers `state` shares with initialState
    pending,       \* the code of the tool call being executed
    netCache,      \* networkFS.cache: remote path -> bytes
    nodes,         \* names of the file nodes lookup created under the mount
    outputDir,     \* the sandbox's /output: file name -> bytes
    pyOut,         \* the object outputCaptureRef points to
    refIsState,    \* whether state.outputCapture is that object
    clock,         \* Date.now()
    calls,         \* this run: step -> requests sent to the collaborator
    adopted,       \* this run: the steps whose snapshot was adopted
    startSnap,     \* the snapshots when this run began: step -> its done flag
    captured,      \* this run: the step the last capture ran in (0: none)
    executed,      \* this run: the step whose live execution last completed
    overwrote,     \* whether saveState ever hit an existing file
    deletes,       \* snapshot files deleted by hand so far
    lastDeleted,   \* the step of the file deleted last (0: none)
    callerBefore   \* initialState as the caller built it

loopVars == <<cacheFiles, initialState, useCache, pc, state, aliased, pending,
              netCache, nodes, outputDir, pyOut, refIsState, clock, calls,
              adopted, startSnap, captured, executed, overwrote, deletes,
              lastDeleted, callerBefore>>

(***************************************************************************)
(* The state in which AgentState's serialize and deserialize are applied   *)
(* to one state on their own.                                              *)
(***************************************************************************)
VARIABLES
    subject,       \* the AgentState s
    record,        \* the record handed to deserialize
    restored,      \* AgentState.deserialize(record)
    phase,         \* "idle", "built", "serialized", "older", "restored"
    now            \* Date.now() when it was last read

stateVars == <<subject, record, restored, phase, now>>

(***************************************************************************)
(* The state of a NetworkFileSystem on its own: the demo adapter, which    *)
(* fetches in node_ops.lookup, or the adapter of original-agent.js, which  *)
(* fetches in the hooks it puts on FS.open, FS.stat and FS.lstat.          *)
(***************************************************************************)
VARIABLES
    adapter,       \* "idle", "mount" (the demo adapter) or "hook"
    fsCache,       \* this.cache: key -> bytes (mount), key -> meta (hook)
    fsNodes,       \* mount: the remote paths lookup created a node for
    fsFiles,       \* hook: the files of the sandbox: path -> bytes
    fetches,       \* locator -> calls of fetcher.fetch made for it
    first,         \* key -> whether the first access that fetched succeeded
    invalidated,   \* the cached keys whose file was removed afterwards
    preloaded,     \* the keys preloadFile was called for
    outcome        \* the last access: its arguments and how it ended

fsVars == <<adapter, fsCache, fsNodes, fsFiles, fetches, first, invalidated,
            preloaded, outcome>>

(***************************************************************************)
(* The state of the node and stream operations of a mounted                *)
(* NetworkFileSystem on their own: the demo adapter or the adapter of      *)
(* mini-agent.js, which fetches the names of KNOWN_RESOURCES only.         *)
(***************************************************************************)
VARIABLES
    mounted,       \* "idle", "demo" or "restricted"
    nodeCache,     \* this.cache: remote path -> bytes
    fileNodes,     \* the remote paths of the file nodes lookup created
    stream,        \* the open stream: its node's remote_path, its position
    answer         \* the last operation: its arguments and what it returned

nodeVars == <<mounted, nodeCache, fileNodes, stream, answer>>

(***************************************************************************)
(* The state of one SyncFetchWorker and its worker thread.                 *)
(***************************************************************************)
VARIABLES
    nextJobId,     \* this.nextJobId
    foreground,    \* where fetch(url) stands
    background,    \* where handleFetchRequest stands
    control,       \* the Int32 of the SharedArrayBuffer of the call
    port1,         \* the messages posted to port2 and not yet received
    response,      \* how the remote call of the job ends
    fetchResult    \* what fetch(url) returned or threw

workerVars == <<nextJobId, foreground, background, control, port1, response,
                fetchResult>>

Steps == 1..MaxSteps

Running == {"loop", "api", "exec", "cleanup"}

UserTask == [role |-> "user", text |-> "task"]

AssistantMessage(stop, code) == [role |-> "assistant", stop_reason |-> stop, code |-> code]

ToolResults(result) == [role |-> "user", tool_result |-> result]

\* What a caller may pass: main's state, and variations of it.
InitialStates ==
    {NewAgentState([messages |-> m, stepCount |-> n, done |-> d], 0) :
        m \in {<<UserTask>>, <<>>}, n \in 0..MaxInitialStep, d \in BOOLEAN}

\* The state main() builds.
MainInitialState == NewAgentState([messages |-> <<UserTask>>, stepCount |-> 0], 0)

SnapshotSteps(dir) == {k \in Steps : existsSync(dir, getCachePath(TaskId, k))}

\* The done flag each snapshot file of the task records.
SnapshotDone(dir) ==
    [k \in SnapshotSteps(dir) |->
        LET text == dir[getCachePath(TaskId, k)]
        IN  text.valid /\ JsOr(text.value, "done", {FALSE}, FALSE)]

NoCalls == [k \in Steps |-> 0]

MemoryInit ==
    /\ state = NewAgentState(<<>>, 0)
    /\ aliased = {}
    /\ pending = ""
    /\ netCache = EmptyMap
    /\ nodes = {}
    /\ outputDir = EmptyMap
    /\ pyOut = EmptyCapture
    /\ refIsState = FALSE

MemoryLost ==
    /\ state' = NewAgentState(<<>>, 0)
    /\ aliased' = {}
    /\ pending' = ""
    /\ netCache' = EmptyMap
    /\ nodes' = {}
    /\ outputDir' = EmptyMap
    /\ pyOut' = EmptyCapture
    /\ refIsState' = FALSE
    /\ calls' = NoCalls
    /\ adopted' = {}
    /\ startSnap' = EmptyMap
    /\ captured' = 0
    /\ executed' = 0

GhostInit ==
    /\ calls = NoCalls
    /\ adopted = {}
    /\ startSnap = EmptyMap
    /\ captured = 0
    /\ executed = 0
    /\ overwrote = FALSE
    /\ deletes = 0
    /\ lastDeleted = 0

\* A task: its identifier, the initial state its caller passes and the caching
\* option are the same in every run of it; the cache directory starts empty.
LoopInit ==
    /\ cacheFiles = EmptyMap
    /\ initialState \in InitialStates
    /\ callerBefore = initialState
    /\ useCache \in BOOLEAN
    /\ pc = "idle"
    /\ clock = 0
    /\ MemoryInit
    /\ GhostInit

(***************************************************************************)
(* agenticLoop, one action per stretch of it that runs without awaiting.   *)
(***************************************************************************)
\* A mutation of container c of `state` is seen through every alias of it.
Through(init, al, c, v) == IF c \in al THEN [init EXCEPT ![c] = v] ELSE init

\* Mutant of IncrementStep: the counter is left as it is.
IncrementStepNever(n) == n

\* Mutant of IncrementStep: the counter is bumped twice.
IncrementStepTwice(n) == n + 2

\* state.stepCount++
IncrementStep(n) == n + 1

reachedEndCondition(s, result) == result.done

\* if (useCache) StateCache.saveState(taskId, state.stepCount, state)
SaveIfCaching(s) ==
    IF useCache
    THEN /\ cacheFiles' = saveState(cacheFiles, TaskId, s.stepCount, s, clock)
         /\ overwrote' = (overwrote \/ existsSync(cacheFiles, getCachePath(TaskId, s.stepCount)))
    ELSE UNCHANGED <<cacheFiles, overwrote>>

\* The start of agenticLoop, up to the main loop.
Start(clearCacheOnStart) ==
    /\ UNCHANGED <<stateVars, fsVars, nodeVars, workerVars>>
    /\ pc \notin Running
    /\ LET dir == IF clearCacheOnStart THEN clearCache(cacheFiles, TaskId) ELSE cacheFiles
           al == cloneShared(initialState)
           s0 == clone(initialState, clock)
           s1 == [s0 EXCEPT !.metadata.taskId = TaskId]
       IN  /\ cacheFiles' = dir
           /\ state' = s1
           /\ aliased' = al
           /\ initialState' = Through(initialState, al, "metadata", s1.metadata)
           /\ pyOut' = s1.outputCapture
           /\ refIsState' = TRUE
           /\ netCache' = restoreNetworkCache(s1.networkCache)
           /\ nodes' = {}
           /\ outputDir' = restoreOutputFiles(EmptyMap, s1.outputFiles)
           /\ startSnap' = SnapshotDone(dir)
    /\ pc' = "loop"
    /\ pending' = ""
    /\ calls' = NoCalls
    /\ adopted' = {}
    /\ captured' = 0
    /\ executed' = 0
    /\ UNCHANGED <<useCache, clock, overwrote, deletes, lastDeleted,
                   callerBefore>>

\* An iteration that finds the next step's snapshot.
AdoptSnapshot ==
    /\ UNCHANGED <<stateVars, fsVars, nodeVars, workerVars>>
    /\ pc = "loop"
    /\ state.stepCount < MaxSteps
    /\ useCache
    /\ LET nextStepCount == state.stepCount + 1
           cachedState == loadState(cacheFiles, TaskId, nextStepCount, clock)
       IN  /\ ~cachedState.isNull
           /\ state' = cachedState.state
           /\ aliased' = {}
           /\ refIsState' = FALSE
           /\ netCache' = restoreNetworkCache(cachedState.state.networkCache)
           /\ outputDir' = restoreOutputFiles(outputDir, cachedState.state.outputFiles)
           /\ adopted' = adopted \cup {nextStepCount}
           /\ pc' = IF reachedEndCondition(cachedState.state,
                                           [done |-> cachedState.state.done])
                    THEN "cleanup" ELSE "loop"
    /\ UNCHANGED <<cacheFiles, initialState, useCache, pending, nodes, pyOut, clock,
                   calls, startSnap, captured, executed, overwrote, deletes, lastDeleted, callerBefore>>

\* An iteration that finds none: runAgenticStep up to the collaborator's answer.
BeginStep ==
    /\ UNCHANGED <<stateVars, fsVars, nodeVars, workerVars>>
    /\ pc = "loop"
    /\ state.stepCount < MaxSteps
    /\ LET nextStepCount == state.stepCount + 1
           cachedState == IF useCache
                          THEN loadState(cacheFiles, TaskId, nextStepCount, clock)
                          ELSE NullState
       IN  cachedState.isNull
    /\ state' = [state EXCEPT !.stepCount = IncrementStep(@)]
    /\ calls' = [k \in DOMAIN calls |->
                    IF k = state'.stepCount THEN calls[k] + 1 ELSE calls[k]]
    /\ pc' = "api"
    /\ UNCHANGED <<cacheFiles, initialState, useCache, aliased, pending, netCache,
                   nodes, outputDir, pyOut, refIsState, clock, adopted, startSnap,
                   captured, executed, overwrote, deletes, lastDeleted, callerBefore>>

\* while (state.stepCount < maxSteps) fails.
LoopExit ==
    /\ UNCHANGED <<stateVars, fsVars, nodeVars, workerVars>>
    /\ pc = "loop"
    /\ ~(state.stepCount < MaxSteps)
    /\ pc' = "cleanup"
    /\ UNCHANGED <<cacheFiles, initialState, useCache, state, aliased, pending,
                   netCache, nodes, outputDir, pyOut, refIsState, clock, calls,
                   adopted, startSnap, captured, executed, overwrote, deletes, lastDeleted, callerBefore>>

\* The collaborator answers with a final answer.
ApiEndTurn ==
    /\ UNCHANGED <<stateVars, fsVars, nodeVars, workerVars>>
    /\ pc = "api"
    /\ LET msgs == Append(state.messages, AssistantMessage("end_turn", ""))
           s1 == [state EXCEPT !.messages = msgs, !.done = TRUE]
       IN  /\ state' = s1
           /\ initialState' = Through(initialState, aliased, "messages", msgs)
           /\ SaveIfCaching(s1)
           /\ executed' = s1.stepCount
           /\ pc' = IF reachedEndCondition(s1, [done |-> TRUE]) THEN "cleanup" ELSE "loop"
    /\ UNCHANGED <<useCache, aliased, pending, netCache, nodes, outputDir, pyOut,
                   refIsState, clock, calls, adopted, startSnap, captured, deletes, lastDeleted, callerBefore>>

\* The collaborator asks for a tool call: executePythonCode is awaited.
ApiToolUse(code) ==
    /\ UNCHANGED <<stateVars, fsVars, nodeVars, workerVars>>
    /\ pc = "api"
    /\ LET msgs == Append(state.messages, AssistantMessage("tool_use", code))
       IN  /\ state' = [state EXCEPT !.messages = msgs]
           /\ initialState' = Through(initialState, aliased, "messages", msgs)
    /\ pending' = code
    /\ pc' = "exec"
    /\ UNCHANGED <<cacheFiles, useCache, aliased, netCache, nodes, outputDir, pyOut,
                   refIsState, clock, calls, adopted, startSnap, captured, executed,
                   overwrote, deletes, lastDeleted, callerBefore>>

\* The collaborator stops for another reason (max_tokens): no tool, capture, save.
ApiOther ==
    /\ UNCHANGED <<stateVars, fsVars, nodeVars, workerVars>>
    /\ pc = "api"
    /\ LET msgs == Append(state.messages, AssistantMessage("max_tokens", ""))
           s1 == [state EXCEPT !.messages = msgs,
                               !.networkCache = captureNetworkCache(netCache),
                               !.outputFiles = captureOutputFiles(outputDir)]
       IN  /\ state' = s1
           /\ initialState' = Through(initialState, aliased, "messages", msgs)
           /\ SaveIfCaching(s1)
           /\ captured' = s1.stepCount
           /\ executed' = s1.stepCount
           /\ pc' = IF reachedEndCondition(s1, [done |-> FALSE]) THEN "cleanup" ELSE "loop"
    /\ aliased' = aliased \ {"networkCache", "outputFiles"}
    /\ UNCHANGED <<useCache, pending, netCache, nodes, outputDir, pyOut, refIsState,
                   clock, calls, adopted, startSnap, deletes, lastDeleted, callerBefore>>

\* The sandbox finishes the tool call; the step captures and is saved.
ExecDone(reply) ==
    /\ UNCHANGED <<stateVars, fsVars, nodeVars, workerVars>>
    /\ pc = "exec"
    /\ LET run == runPython(pending, netCache, nodes, outputDir, reply)
           py1 == [stdout |-> pyOut.stdout \o run.out, stderr |-> pyOut.stderr \o run.err]
           cap1 == IF refIsState THEN py1 ELSE state.outputCapture
           result == executePythonCode(cap1, run.raised)
           msgs == Append(state.messages, ToolResults(result))
           s1 == [state EXCEPT !.messages = msgs,
                               !.outputCapture = EmptyCapture,
                               !.networkCache = captureNetworkCache(run.cache),
                               !.outputFiles = captureOutputFiles(run.dir)]
       IN  /\ state' = s1
           /\ initialState' = Through(Through(initialState, aliased, "messages", msgs),
                                      aliased, "outputCapture", EmptyCapture)
           /\ pyOut' = IF refIsState THEN EmptyCapture ELSE py1
           /\ netCache' = run.cache
           /\ nodes' = run.nodes
           /\ outputDir' = run.dir
           /\ SaveIfCaching(s1)
           /\ captured' = s1.stepCount
           /\ executed' = s1.stepCount
           /\ pc' = IF reachedEndCondition(s1, [done |-> FALSE]) THEN "cleanup" ELSE "loop"
    /\ aliased' = aliased \ {"networkCache", "outputFiles"}
    /\ pending' = ""
    /\ UNCHANGED <<useCache, refIsState, clock, calls, adopted, startSnap,
                   deletes, lastDeleted, callerBefore>>

\* The request to the collaborator fails: agenticLoop rejects, main exits.
ApiError ==
    /\ UNCHANGED <<stateVars, fsVars, nodeVars, workerVars>>
    /\ pc = "api"
    /\ pc' = "failed"
    /\ MemoryLost
    /\ UNCHANGED <<cacheFiles, initialState, useCache, clock, overwrote,
                   deletes, lastDeleted, callerBefore>>

\* networkFS.dispose() and return state.
Cleanup ==
    /\ UNCHANGED <<stateVars, fsVars, nodeVars, workerVars>>
    /\ pc = "cleanup"
    /\ pc' = "returned"
    /\ UNCHANGED <<cacheFiles, initialState, useCache, state, aliased, pending,
                   netCache, nodes, outputDir, pyOut, refIsState, clock, calls,
                   adopted, startSnap, captured, executed, overwrote, deletes, lastDeleted, callerBefore>>

\* Mutant of AfterSaveError: the error of saveState is caught and dropped.
AfterSaveErrorIgnored == "loop"

\* Nothing between fs.writeFileSync and the caller of agenticLoop catches:
\* agenticLoop rejects.
AfterSaveError == "failed"

\* The step ends and fs.writeFileSync throws in saveState (no space, no
\* permission), leaving the file as it was or cut short.
SaveError(cutShort) ==
    /\ UNCHANGED <<stateVars, fsVars, nodeVars, workerVars>>
    /\ pc \in {"api", "exec"}
    /\ useCache
    /\ cacheFiles' = IF cutShort
                     THEN MapSet(cacheFiles, getCachePath(TaskId, state.stepCount),
                                 Truncated)
                     ELSE cacheFiles
    /\ pc' = AfterSaveError
    /\ MemoryLost
    /\ UNCHANGED <<initialState, useCache, clock, overwrote, deletes, lastDeleted,
                   callerBefore>>

\* The process is killed while a run is under way.
Crash ==
    /\ UNCHANGED <<stateVars, fsVars, nodeVars, workerVars>>
    /\ pc \in Running
    /\ pc' = "crashed"
    /\ MemoryLost
    /\ UNCHANGED <<cacheFiles, initialState, useCache, clock, overwrote,
                   deletes, lastDeleted, callerBefore>>

\* Between runs, the process gone, the operator deletes one cache file
\* (README, Caching and Output).
DeleteSnapshot(k) ==
    /\ UNCHANGED <<stateVars, fsVars, nodeVars, workerVars>>
    /\ pc \notin Running
    /\ deletes < MaxDeletes
    /\ existsSync(cacheFiles, getCachePath(TaskId, k))
    /\ cacheFiles' = [f \in (DOMAIN cacheFiles) \ {getCachePath(TaskId, k)} |-> cacheFiles[f]]
    /\ deletes' = deletes + 1
    /\ lastDeleted' = k
    /\ pc' = "idle"
    /\ MemoryLost
    /\ UNCHANGED <<initialState, useCache, clock, overwrote, callerBefore>>

(***************************************************************************)
(* AgentState on its own: a state is built, serialized at some time, the   *)
(* record possibly cut down to the fields an older version wrote, and      *)
(* deserialized at some later time.                                        *)
(***************************************************************************)
Fields == {"messages", "stepCount", "outputCapture", "networkCache",
           "outputFiles", "done", "metadata"}

Times == 0..MaxNow

\* States a run can hold, small ones.
StateSamples ==
    {[messages      |-> m,
      stepCount     |-> n,
      outputCapture |-> c,
      networkCache  |-> captureNetworkCache(nc),
      outputFiles   |-> captureOutputFiles(of),
      done          |-> d,
      metadata      |-> [taskId |-> t, createdAt |-> 0, lastModified |-> 0]] :
        m \in {<<>>, <<UserTask>>},
        n \in 0..MaxInitialStep,
        c \in {EmptyCapture, [stdout |-> <<49>>, stderr |-> ErrorMessage]},
        nc \in {EmptyMap, MapSet(EmptyMap, RootRemotePath \o <<"current-ip">>, <<49>>)},
        of \in {EmptyMap, MapSet(EmptyMap, "a", FileBytes.a)},
        d \in BOOLEAN,
        t \in {NullTaskId, TaskId}}

StateIdle ==
    /\ subject = NullState
    /\ record = EmptyMap
    /\ restored = NullState
    /\ phase = "idle"
    /\ now = 0

StateInit ==
    /\ subject \in StateSamples
    /\ record = EmptyMap
    /\ restored = NullState
    /\ phase = "built"
    /\ now = 0

\* record = s.serialize(), Date.now() reading t.
Serialize(t) ==
    /\ phase = "built"
    /\ t >= now
    /\ record' = serialize(subject, t)
    /\ phase' = "serialized"
    /\ now' = t
    /\ UNCHANGED <<subject, restored, loopVars, fsVars, nodeVars,
                   workerVars>>

\* The record as a version that did not know the fields in `missing` wrote it.
OlderRecord(missing) ==
    /\ phase = "serialized"
    /\ missing # {}
    /\ record' = [f \in (DOMAIN record) \ missing |-> record[f]]
    /\ phase' = "older"
    /\ UNCHANGED <<subject, restored, now, loopVars, fsVars, nodeVars,
                   workerVars>>

\* restored = AgentState.deserialize(record), Date.now() reading t.
Deserialize(t) ==
    /\ phase \in {"serialized", "older"}
    /\ t >= now
    /\ restored' = deserialize(record, t)
    /\ phase' = "restored"
    /\ now' = t
    /\ UNCHANGED <<subject, record, loopVars, fsVars, nodeVars,
                   workerVars>>

(***************************************************************************)
(* The adapters' path arithmetic works on text: a path here is the         *)
(* sequence of its character codes, "/n/a" is <<47, 110, 47, 97>>.         *)
(***************************************************************************)
Slash == <<47>>

\* s.startsWith(p), s.includes(c)
StartsWith(s, p) == IsPrefix(p, s)

Includes(s, c) == \E i \in 1..Len(s) : s[i] = c

\* this.scheme, and the "://" of pathToURL
scheme == <<104, 116, 116, 112, 115>>

SchemeSeparator == <<58, 47, 47>>

Count(f, k) == IF k \in DOMAIN f THEN f[k] ELSE 0

(***************************************************************************)
(* The demo adapter: the cache is keyed by remote path; lookup under the   *)
(* mount root fetches what is not cached, preloadFile fetches.             *)
(***************************************************************************)
\* The names looked up under the mount root: "a", "b".
Names == {<<97>>, <<98>>}

pathToURL(remotePath) == scheme \o SchemeSeparator \o remotePath

\* lookup's remote path; the root's remote_path is "".
lookupRemotePath(parentRemotePath, name) ==
    IF parentRemotePath # <<>> THEN parentRemotePath \o Slash \o name ELSE name

\* lookup letting the bridge's own error through (-1: not an errno).
lookupRethrow(cache, parentRemotePath, name, reply) ==
    LET remotePath == lookupRemotePath(parentRemotePath, name)
        url == pathToURL(remotePath)
    IN  IF remotePath \in DOMAIN cache
        THEN [cache |-> cache, key |-> remotePath, fetched |-> <<>>, errno |-> 0]
        ELSE IF reply.ok
        THEN [cache |-> MapSet(cache, remotePath, reply.data), key |-> remotePath,
              fetched |-> <<url>>, errno |-> 0]
        ELSE [cache |-> cache, key |-> remotePath, fetched |-> <<url>>,
              errno |-> -1]

\* node_ops.lookup: the new cache, the locators handed to the bridge and the
\* errno thrown (0: the node is created).
lookup(cache, parentRemotePath, name, reply) ==
    LET remotePath == lookupRemotePath(parentRemotePath, name)
        url == pathToURL(remotePath)
    IN  IF remotePath \in DOMAIN cache
        THEN [cache |-> cache, key |-> remotePath, fetched |-> <<>>, errno |-> 0]
        ELSE IF reply.ok
        THEN [cache |-> MapSet(cache, remotePath, reply.data), key |-> remotePath,
              fetched |-> <<url>>, errno |-> 0]
        ELSE [cache |-> cache, key |-> remotePath, fetched |-> <<url>>,
              errno |-> ENOENT]

\* preloadFile: the fetch is made whatever the cache holds; a failed fetch
\* rejects and leaves the cache.
preloadFile(cache, remotePath, reply) ==
    LET url == pathToURL(remotePath)
    IN  IF reply.ok
        THEN [cache |-> MapSet(cache, remotePath, reply.data), key |-> remotePath,
              fetched |-> <<url>>, errno |-> 0]
        ELSE [cache |-> cache, key |-> remotePath, fetched |-> <<url>>,
              errno |-> ENOENT]

(***************************************************************************)
(* The adapter of original-agent.js: the cache is keyed by the path in the *)
(* sandbox's file system, the content is written there as a file.          *)
(***************************************************************************)
\* options.mountPoint: "/n".
mountPoint == <<47, 110>>

\* The path arguments of the accesses: "/n/a", "/n//a", "/a", "/n", "".
AccessPaths ==
    {<<47, 110, 47, 97>>, <<47, 110, 47, 47, 97>>, <<47, 97>>, <<47, 110>>, <<>>}

O_ACCMODE == 3
O_WRONLY == 1

\* The flags of an open: a mode string, or the bits of a number.
\* "r", "a+", O_WRONLY | O_CREAT | O_TRUNC.
OpenFlags ==
    {[isString |-> TRUE, text |-> <<114>>, bits |-> 0],
     [isString |-> TRUE, text |-> <<97, 43>>, bits |-> 0],
     [isString |-> FALSE, text |-> <<>>, bits |-> 577]}

\* What the bridge answers to the hook adapter: one body, or a failure.
HookReplies == {[ok |-> TRUE, data |-> <<49>>], [ok |-> FALSE]}

\* null and "" are alike to the `!path` and `!fsPath` tests.
NullPath == <<>>

normalizeToMount(path) ==
    IF path = NullPath THEN NullPath
    ELSE IF StartsWith(path, mountPoint) THEN path
    ELSE IF StartsWith(path, Slash) THEN mountPoint \o path
    ELSE mountPoint \o Slash \o path

isWithinMount(fsPath) ==
    fsPath = mountPoint \/ StartsWith(fsPath, mountPoint \o Slash)

\* remote.replace(/^\/+/, "")
RECURSIVE StripLeadingSlashes(_)
StripLeadingSlashes(text) ==
    IF StartsWith(text, Slash) THEN StripLeadingSlashes(Tail(text)) ELSE text

extractRemotePath(fsPath) ==
    IF ~isWithinMount(fsPath) THEN <<>>
    ELSE LET prefix == IF mountPoint = Slash THEN Slash ELSE mountPoint \o Slash
             remote == IF StartsWith(fsPath, prefix)
                       THEN SubSeq(fsPath, Len(prefix) + 1, Len(fsPath))
                       ELSE fsPath
         IN  StripLeadingSlashes(remote)

\* pathToURL putting the whole path after the scheme.
pathToURLOfWholePath(fsPath) == scheme \o SchemeSeparator \o fsPath

\* pathToURL of original-agent.js, for a path with a remote part.
pathToURLOfFsPath(fsPath) == scheme \o SchemeSeparator \o extractRemotePath(fsPath)

\* The mount point is a directory (ensureMountPoint); the other paths of the
\* model name files or nothing.
IsDirectory(fsPath) == fsPath = mountPoint

fileExists(files, fsPath) == IsDirectory(fsPath) \/ fsPath \in DOMAIN files

\* (flags & O_ACCMODE) with O_ACCMODE = 3 is flags modulo 4.
shouldFetchForOpen(flags) ==
    IF flags.isString
    THEN ~Includes(flags.text, 119) /\ ~Includes(flags.text, 97)
    ELSE (flags.bits % (O_ACCMODE + 1)) # O_WRONLY

\* ensureFileSync: the new cache and files, the locators handed to the
\* bridge, the cache key, and how the call ended: "null", "cached",
\* "fetched", or the error thrown ("ENOENT" from the fetch, "EISDIR" from
\* writeFile on a directory).
ensureFileSync(cache, files, path, reply) ==
    LET fsPath == normalizeToMount(path)
        same(result) == [cache |-> cache, files |-> files, fetched |-> <<>>,
                         key |-> fsPath, result |-> result]
    IN  IF fsPath = NullPath \/ ~isWithinMount(fsPath) THEN same("null")
        ELSE IF extractRemotePath(fsPath) = <<>> THEN same("null")
        ELSE IF fsPath \in DOMAIN cache /\ fileExists(files, fsPath) THEN same("cached")
        ELSE LET url == pathToURLOfFsPath(fsPath)
             IN  IF ~reply.ok THEN [same("ENOENT") EXCEPT !.fetched = <<url>>]
                 ELSE IF IsDirectory(fsPath)
                 THEN [same("EISDIR") EXCEPT !.fetched = <<url>>]
                 ELSE [cache   |-> MapSet(cache, fsPath,
                                          [path |-> fsPath, url |-> url,
                                           bytes |-> Len(reply.data), timestamp |-> 0]),
                       files   |-> MapSet(files, fsPath, reply.data),
                       fetched |-> <<url>>,
                       key     |-> fsPath,
                       result  |-> "fetched"]

\* The flags of an access that takes none.
NoFlags == [isString |-> FALSE, text |-> <<>>, bits |-> 0]

\* What the bridge did in an access: "none" (not called), "ok", "failed".
Bridge(fetched, reply) ==
    IF fetched = <<>> THEN "none" ELSE IF reply.ok THEN "ok" ELSE "failed"

\* How an access ended: what the bridge did, the errno of the error the
\* adapter threw (0: none), and, for a hook, whether the original entry
\* point was then called with the same arguments.
Outcome(op, path, flags, bridge, errno, delegated) ==
    [op |-> op, path |-> path, flags |-> flags, bridge |-> bridge,
     errno |-> errno, delegated |-> delegated]

NoAccess == Outcome("none", <<>>, NoFlags, "none", 0, FALSE)

FsIdle ==
    /\ adapter = "idle"
    /\ outcome = NoAccess
    /\ fsCache = EmptyMap
    /\ fsNodes = {}
    /\ fsFiles = EmptyMap
    /\ fetches = EmptyMap
    /\ first = EmptyMap
    /\ invalidated = {}
    /\ preloaded = {}

FsInit ==
    /\ adapter \in {"mount", "hook"}
    /\ outcome = NoAccess
    /\ fsCache = EmptyMap
    /\ fsNodes = {}
    /\ fsFiles = EmptyMap
    /\ fetches = EmptyMap
    /\ first = EmptyMap
    /\ invalidated = {}
    /\ preloaded = {}

\* The bridge is asked for each of the locators; the outcome of the first
\* access to a key that reached the bridge is kept.
Fetched(key, fetched, ok) ==
    /\ \A i \in 1..Len(fetched) : Count(fetches, fetched[i]) < MaxFetches
    /\ fetches' = IF fetched = <<>> THEN fetches
                  ELSE MapSet(fetches, fetched[1], Count(fetches, fetched[1]) + 1)
    /\ first' = IF fetched # <<>> /\ key \notin DOMAIN first
                THEN MapSet(first, key, ok)
                ELSE first

\* The sandbox resolves `name` under the mount root.
Lookup(name, reply) ==
    /\ adapter = "mount"
    /\ LET r == lookup(fsCache, <<>>, name, reply)
       IN  /\ Fetched(r.key, r.fetched, r.errno = 0)
           /\ fsCache' = r.cache
           /\ fsNodes' = IF r.errno = 0 THEN fsNodes \cup {r.key} ELSE fsNodes
           /\ outcome' = Outcome("lookup", name, NoFlags, Bridge(r.fetched, reply),
                                  r.errno, FALSE)
    /\ UNCHANGED <<adapter, fsFiles, invalidated, preloaded, loopVars,
                   stateVars, nodeVars, workerVars>>

PreloadFile(remotePath, reply) ==
    /\ adapter = "mount"
    /\ LET r == preloadFile(fsCache, remotePath, reply)
       IN  /\ Fetched(r.key, r.fetched, r.errno = 0)
           /\ fsCache' = r.cache
           /\ outcome' = Outcome("preloadFile", remotePath, NoFlags,
                                  Bridge(r.fetched, reply), r.errno, FALSE)
    /\ preloaded' = preloaded \cup {remotePath}
    /\ UNCHANGED <<adapter, fsNodes, fsFiles, invalidated, loopVars,
                   stateVars, nodeVars, workerVars>>

\* The errno of the error ensureFileSync throws, 0 when it returns.
ErrnoOf(result) ==
    IF result = "ENOENT" THEN ENOENT ELSE IF result = "EISDIR" THEN EISDIR ELSE 0

\* ensureFileSync as the hooks and the python module's ensure call it; a
\* hook calls the original entry point when ensureFileSync returned.
Ensured(op, path, flags, reply) ==
    LET r == ensureFileSync(fsCache, fsFiles, path, reply)
    IN  /\ Fetched(r.key, r.fetched, r.result = "fetched")
        /\ fsCache' = r.cache
        /\ fsFiles' = r.files
        /\ outcome' = Outcome(op, path, flags, Bridge(r.fetched, reply),
                              ErrnoOf(r.result),
                              op # "ensure" /\ ErrnoOf(r.result) = 0)

\* The files after the original open of a path for writing: the file is
\* created or emptied, or, with an "a" mode, created or left as it is.
originalOpen(files, path, flags) ==
    IF path = NullPath \/ IsDirectory(path) THEN files
    ELSE IF flags.isString /\ Includes(flags.text, 97) /\ path \in DOMAIN files
    THEN files
    ELSE MapSet(files, path, <<>>)

\* patchedOpen.  The original open changes no file when the path is opened
\* for reading.
Open(path, flags, reply) ==
    /\ adapter = "hook"
    /\ IF normalizeToMount(path) # NullPath /\ shouldFetchForOpen(flags)
       THEN Ensured("open", path, flags, reply)
       ELSE /\ reply = [ok |-> FALSE]
            /\ fsFiles' = originalOpen(fsFiles, path, flags)
            /\ outcome' = Outcome("open", path, flags, "none", 0, TRUE)
            /\ UNCHANGED <<fsCache, fetches, first>>
    /\ UNCHANGED <<adapter, fsNodes, invalidated, preloaded, loopVars,
                   stateVars, nodeVars, workerVars>>

\* patchedStat and patchedLstat.
Stat(path, reply) ==
    /\ adapter = "hook"
    /\ IF normalizeToMount(path) # NullPath
       THEN Ensured("stat", path, NoFlags, reply)
       ELSE /\ reply = [ok |-> FALSE]
            /\ outcome' = Outcome("stat", path, NoFlags, "none", 0, TRUE)
            /\ UNCHANGED <<fsCache, fsFiles, fetches, first>>
    /\ UNCHANGED <<adapter, fsNodes, invalidated, preloaded, loopVars,
                   stateVars, nodeVars, workerVars>>

\* The python module's ensure.
Ensure(path, reply) ==
    /\ adapter = "hook"
    /\ Ensured("ensure", path, NoFlags, reply)
    /\ UNCHANGED <<adapter, fsNodes, invalidated, preloaded, loopVars,
                   stateVars, nodeVars, workerVars>>

\* The sandboxed code removes a file under the mount point.
Unlink(fsPath) ==
    /\ adapter = "hook"
    /\ fsPath \in DOMAIN fsFiles
    /\ fsFiles' = [f \in (DOMAIN fsFiles) \ {fsPath} |-> fsFiles[f]]
    /\ invalidated' = IF fsPath \in DOMAIN fsCache
                      THEN invalidated \cup {fsPath}
                      ELSE invalidated
    /\ outcome' = Outcome("unlink", fsPath, NoFlags, "none", 0, FALSE)
    /\ UNCHANGED <<adapter, fsCache, fsNodes, fetches, first, preloaded, loopVars,
                   stateVars, nodeVars, workerVars>>

(***************************************************************************)
(* The node and stream operations of a mounted NetworkFileSystem.  The     *)
(* demo adapter's remote paths are texts, "a/b" is <<97, 47, 98>>; the     *)
(* restricted adapter's are the paths of lookupKnown.  The two adapters    *)
(* have the same read, llseek, readdir, mknod, rename, rmdir, unlink and   *)
(* setattr.                                                                *)
(***************************************************************************)
EROFS == 30
EINVAL == 22

SEEK_SET == 0
SEEK_CUR == 1
SEEK_END == 2

\* Math.min
Min(a, b) == IF a < b THEN a ELSE b

\* bytes.slice(start, end) for start >= 0 and end <= bytes.length
Slice(bytes, start, end) == SubSeq(bytes, start + 1, end)

\* stream_ops.read: the count returned and the bytes set into the buffer.
read(cache, remotePath, length, position) ==
    IF remotePath \notin DOMAIN cache THEN [count |-> 0, copied |-> <<>>]
    ELSE LET bytes == cache[remotePath]
             start == position
             end == Min(Len(bytes), position + length)
         IN  [count |-> end - start, copied |-> Slice(bytes, start, end)]

\* llseek that moves a negative position to the start of the file.
llseekClamped(cache, str, offset, whence) ==
    LET size == IF str.remotePath \in DOMAIN cache
                THEN Len(cache[str.remotePath]) ELSE 0
        pos == IF whence = SEEK_SET THEN offset
               ELSE IF whence = SEEK_CUR THEN str.position + offset
               ELSE IF whence = SEEK_END THEN size + offset
               ELSE str.position
    IN  IF pos < 0
        THEN [errno |-> 0, position |-> 0, value |-> 0]
        ELSE [errno |-> 0, position |-> pos, value |-> pos]

\* stream_ops.llseek: the errno thrown (0: none), the stream's position
\* afterwards and the value returned.
llseek(cache, str, offset, whence) ==
    LET size == IF str.remotePath \in DOMAIN cache
                THEN Len(cache[str.remotePath]) ELSE 0
        pos == IF whence = SEEK_SET THEN offset
               ELSE IF whence = SEEK_CUR THEN str.position + offset
               ELSE IF whence = SEEK_END THEN size + offset
               ELSE str.position
    IN  IF pos < 0
        THEN [errno |-> EINVAL, position |-> str.position, value |-> 0]
        ELSE [errno |-> 0, position |-> pos, value |-> pos]

\* text.split("/")[0]
FirstPart(text) ==
    LET slashes == {i \in 1..Len(text) : text[i] = Slash[1]}
    IN  IF slashes = {} THEN text
        ELSE SubSeq(text, 1, (CHOOSE i \in slashes : \A j \in slashes : i <= j) - 1)

Dot == <<46>>
DotDot == <<46, 46>>

\* The elements of a set in some order.
ArrayFrom(set) ==
    CHOOSE seq \in [1..Cardinality(set) -> set] :
        \A e \in set : \E i \in 1..Cardinality(set) : seq[i] = e

\* The children readdir collects for a node with remote_path dirPath.
readdirChildren(cache, dirPath) ==
    IF dirPath = <<>>
    THEN {FirstPart(cachedPath) : cachedPath \in DOMAIN cache}
    ELSE {FirstPart(SubSeq(cachedPath, Len(dirPath) + 2, Len(cachedPath))) :
             cachedPath \in {k \in DOMAIN cache : StartsWith(k, dirPath \o Slash)}}

\* node_ops.readdir; the order of the children is the cache's, which the
\* model does not keep.
readdir(cache, dirPath) ==
    <<Dot, DotDot>> \o ArrayFrom(readdirChildren(cache, dirPath))

\* node_ops.readdir of the adapter of mini-agent.js, whose remote paths are
\* kept as the parts split("/") gives: "" is <<"">>, "/current-ip" is
\* <<"", "current-ip">>.  For the root the child is parts[0]; for another
\* node, the part that follows dirPath + "/".
readdirRestricted(cache, dirPath) ==
    LET children ==
            IF dirPath = RootRemotePath
            THEN {cachedPath[1] : cachedPath \in DOMAIN cache}
            ELSE {cachedPath[Len(dirPath) + 1] :
                     cachedPath \in {k \in DOMAIN cache :
                                        Len(k) > Len(dirPath) /\ IsPrefix(dirPath, k)}}
    IN  <<".", "..">> \o ArrayFrom(children)

\* node_ops.mknod, rename, rmdir, unlink and setattr: the errno thrown.
MutatingOps == {"mknod", "rename", "rmdir", "unlink", "setattr"}

\* unlink let through.
mutateButUnlink(op) == IF op = "unlink" THEN 0 ELSE EROFS

mutate(op) == EROFS

\* The names looked up under the root of the restricted adapter.
KnownNames == {"current-ip", "other"}

\* The remote paths handed to preloadFile: "a/b", "a/./c".
NestedPaths == {<<97, 47, 98>>, <<97, 47, 46, 47, 99>>}

\* The networkCache of the states restored: none, the allow-listed
\* resource, and a snapshot that holds another key.
NetworkCaches ==
    {EmptyMap,
     captureNetworkCache([k \in {RootRemotePath \o <<"current-ip">>} |-> <<49>>]),
     captureNetworkCache([k \in {RootRemotePath \o <<"other">>} |-> <<49, 50>>])}

Whences == {SEEK_SET, SEEK_CUR, SEEK_END, SEEK_END + 1}

Offsets == (0 - MaxOffset)..MaxOffset

NoStream == [open |-> FALSE, remotePath |-> <<>>, position |-> 0]

Answer(op, args, errno, value, data, fetched) ==
    [op |-> op, args |-> args, errno |-> errno, value |-> value, data |-> data,
     fetched |-> fetched]

NoAnswer == Answer("none", <<>>, 0, 0, <<>>, <<>>)

NodeIdle ==
    /\ mounted = "idle"
    /\ nodeCache = EmptyMap
    /\ fileNodes = {}
    /\ stream = NoStream
    /\ answer = NoAnswer

NodeInit ==
    /\ mounted \in {"demo", "restricted"}
    /\ nodeCache = EmptyMap
    /\ fileNodes = {}
    /\ stream = NoStream
    /\ answer = NoAnswer

\* The sandbox resolves `name` under the root of the demo adapter.
NodeLookup(name, reply) ==
    /\ mounted = "demo"
    /\ LET r == lookup(nodeCache, <<>>, name, reply)
       IN  /\ nodeCache' = r.cache
           /\ fileNodes' = IF r.errno = 0 THEN fileNodes \cup {r.key} ELSE fileNodes
           /\ answer' = Answer("lookup", [name |-> name], r.errno, 0, <<>>, r.fetched)
    /\ UNCHANGED <<mounted, stream, loopVars, stateVars, fsVars, workerVars>>

\* The sandbox resolves `name` under the root of the restricted adapter.
NodeLookupKnown(name, reply) ==
    /\ mounted = "restricted"
    /\ LET r == lookupKnown(nodeCache, RootRemotePath, name, reply)
       IN  /\ nodeCache' = r.cache
           /\ fileNodes' = IF r.errno = 0
                           THEN fileNodes \cup {RootRemotePath \o <<name>>}
                           ELSE fileNodes
           /\ answer' = Answer("lookup", [name |-> name], r.errno, 0, <<>>, r.fetched)
    /\ UNCHANGED <<mounted, stream, loopVars, stateVars, fsVars, workerVars>>

NodePreloadFile(remotePath, reply) ==
    /\ mounted = "demo"
    /\ LET r == preloadFile(nodeCache, remotePath, reply)
       IN  /\ nodeCache' = r.cache
           /\ answer' = Answer("preloadFile", [remotePath |-> remotePath], r.errno,
                               0, <<>>, r.fetched)
    /\ UNCHANGED <<mounted, fileNodes, stream, loopVars, stateVars, fsVars,
                   workerVars>>

\* state.restoreNetworkCache(networkFS) for a state that was passed in or
\* read from a snapshot.
NodeRestore(networkCache) ==
    /\ mounted = "restricted"
    /\ nodeCache' = restoreNetworkCache(networkCache)
    /\ answer' = Answer("restoreNetworkCache", [networkCache |-> networkCache], 0, 0,
                        <<>>, <<>>)
    /\ UNCHANGED <<mounted, fileNodes, stream, loopVars, stateVars, fsVars,
                   workerVars>>

\* state.captureNetworkCache(networkFS) at the end of a step, and
\* state.restoreNetworkCache(networkFS) with that state.
NodeCaptureRestore ==
    /\ mounted = "restricted"
    /\ nodeCache' = restoreNetworkCache(captureNetworkCache(nodeCache))
    /\ answer' = Answer("captureRestore", [before |-> nodeCache], 0, 0, <<>>, <<>>)
    /\ UNCHANGED <<mounted, fileNodes, stream, loopVars, stateVars, fsVars,
                   workerVars>>

\* The sandbox opens the file of a node: a stream at position 0.
NodeOpen(remotePath) ==
    /\ remotePath \in fileNodes
    /\ stream' = [open |-> TRUE, remotePath |-> remotePath, position |-> 0]
    /\ answer' = Answer("open", [remotePath |-> remotePath], 0, 0, <<>>, <<>>)
    /\ UNCHANGED <<mounted, nodeCache, fileNodes, loopVars, stateVars, fsVars,
                   workerVars>>

\* read(stream, buffer, offset, length, stream.position)
NodeRead(length) ==
    /\ stream.open
    /\ LET r == read(nodeCache, stream.remotePath, length, stream.position)
       IN  answer' = Answer("read", [length |-> length, position |-> stream.position],
                            0, r.count, r.copied, <<>>)
    /\ UNCHANGED <<mounted, nodeCache, fileNodes, stream, loopVars, stateVars,
                   fsVars, workerVars>>

NodeLlseek(offset, whence) ==
    /\ stream.open
    /\ LET r == llseek(nodeCache, stream, offset, whence)
       IN  /\ r.position <= MaxPosition
           /\ stream' = [stream EXCEPT !.position = r.position]
           /\ answer' = Answer("llseek",
                               [offset |-> offset, whence |-> whence,
                                position |-> stream.position],
                               r.errno, r.value, <<>>, <<>>)
    /\ UNCHANGED <<mounted, nodeCache, fileNodes, loopVars, stateVars, fsVars,
                   workerVars>>

\* readdir of the root or of a node lookup created.
NodeReaddir(dirPath) ==
    /\ mounted = "demo"
    /\ dirPath \in {<<>>} \cup fileNodes
    /\ answer' = Answer("readdir", [dirPath |-> dirPath], 0, 0,
                        readdir(nodeCache, dirPath), <<>>)
    /\ UNCHANGED <<mounted, nodeCache, fileNodes, stream, loopVars, stateVars,
                   fsVars, workerVars>>

\* readdir of the mount root or of a node lookup created, in the adapter of
\* mini-agent.js.
NodeReaddirRestricted(dirPath) ==
    /\ mounted = "restricted"
    /\ dirPath \in {RootRemotePath} \cup fileNodes
    /\ answer' = Answer("readdirRestricted", [dirPath |-> dirPath], 0, 0,
                        readdirRestricted(nodeCache, dirPath), <<>>)
    /\ UNCHANGED <<mounted, nodeCache, fileNodes, stream, loopVars, stateVars,
                   fsVars, workerVars>>

NodeMutate(op) ==
    /\ mounted \in {"demo", "restricted"}
    /\ answer' = Answer(op, <<>>, mutate(op), 0, <<>>, <<>>)
    /\ UNCHANGED <<mounted, nodeCache, fileNodes, stream, loopVars, stateVars,
                   fsVars, workerVars>>

(***************************************************************************)
(* SyncFetchWorker.fetch and the worker's handleFetchRequest.  The         *)
(* foreground posts the job and blocks in Atomics.wait; the worker awaits  *)
(* the remote call, posts the payload on the job's port, stores 1 or -1 in *)
(* the shared Int32, notifies, and closes its port; the foreground takes   *)
(* the payload from its port and returns its data or throws.               *)
(***************************************************************************)
NoError == [message |-> "", name |-> ""]

\* How the remote call of a job may end: a 2xx response with a body that
\* can be read, a response that is not 2xx, a rejected fetch, a body that
\* cannot be read; with the error the worker's try block then throws.
RemoteOutcomes ==
    {[kind |-> "ok", data |-> b, error |-> NoError] : b \in ResponseBodies \cup {<<>>}}
    \cup
    {[kind |-> "status", data |-> <<>>,
      error |-> [message |-> "HTTP 404 Not Found", name |-> "Error"]],
     [kind |-> "transport", data |-> <<>>,
      error |-> [message |-> "fetch failed", name |-> "TypeError"]],
     [kind |-> "body", data |-> <<>>,
      error |-> [message |-> "terminated", name |-> "TypeError"]]}

NoResponse == [kind |-> "none", data |-> <<>>, error |-> NoError]

\* normalizeError of an Error: its message and name.
normalizeError(error) == [message |-> error.message, name |-> error.name]

\* The payload handleFetchRequest posts.
workerPayload(id, resp) ==
    IF resp.kind = "ok"
    THEN [id |-> id, status |-> "ok", data |-> resp.data, error |-> NoError]
    ELSE [id |-> id, status |-> "error", data |-> <<>>,
          error |-> normalizeError(resp.error)]

FailedToFetch == "Failed to fetch"

\* fetch handing back the data of any payload.
fetchOutcomeAnyStatus(payload) ==
    [threw |-> FALSE, data |-> payload.data, message |-> "", name |-> ""]

\* What fetch does with the payload it received: the Uint8Array returned,
\* or the message and name of the Error thrown.
fetchOutcome(payload) ==
    IF payload.status # "ok"
    THEN [threw   |-> TRUE,
          data    |-> <<>>,
          message |-> IF payload.error.message # "" THEN payload.error.message
                      ELSE FailedToFetch,
          name    |-> IF payload.error.name # "" THEN payload.error.name
                      ELSE "Error"]
    ELSE [threw |-> FALSE, data |-> payload.data, message |-> "", name |-> ""]

NoResult == [threw |-> FALSE, data |-> <<>>, message |-> "", name |-> ""]

WorkerIdle ==
    /\ nextJobId = 1
    /\ foreground = "idle"
    /\ background = "idle"
    /\ control = 0
    /\ port1 = <<>>
    /\ response = NoResponse
    /\ fetchResult = NoResult

WorkerInit == WorkerIdle

\* fetch(url) up to Atomics.wait: a new job, flag and channel, the job
\* posted to the worker.  The worker's handler for the job begins when its
\* handler for the job before has ended; the call is taken at that moment.
Dispatch(resp) ==
    /\ background = "idle"
    /\ nextJobId <= MaxJobs
    /\ nextJobId' = nextJobId + 1
    /\ control' = 0
    /\ port1' = <<>>
    /\ response' = resp
    /\ fetchResult' = NoResult
    /\ foreground' = "wait"
    /\ background' = "fetching"

FetchCall(resp) ==
    /\ foreground \in {"idle", "returned", "threw"}
    /\ Dispatch(resp)
    /\ UNCHANGED <<loopVars, stateVars, fsVars, nodeVars>>

\* Atomics.wait(control, 0, 0) finds a value other than 0 and returns.
WaitNotEqual ==
    /\ foreground = "wait"
    /\ control # 0
    /\ foreground' = "receive"
    /\ UNCHANGED <<nextJobId, background, control, port1, response, fetchResult,
                   loopVars, stateVars, fsVars, nodeVars>>

\* Mutant of WaitSleep: the sleep begins without the value being compared.
WaitSleepUncompared ==
    /\ foreground = "wait"
    /\ foreground' = "asleep"
    /\ UNCHANGED <<nextJobId, background, control, port1, response, fetchResult,
                   loopVars, stateVars, fsVars, nodeVars>>

\* Atomics.wait(control, 0, 0) finds 0 and sleeps.
WaitSleep ==
    /\ foreground = "wait"
    /\ control = 0
    /\ foreground' = "asleep"
    /\ UNCHANGED <<nextJobId, background, control, port1, response, fetchResult,
                   loopVars, stateVars, fsVars, nodeVars>>

\* The worker's remote call has ended and the payload is posted.
WorkerPost ==
    /\ background = "fetching"
    /\ port1' = Append(port1, workerPayload(nextJobId - 1, response))
    /\ background' = "posted"
    /\ UNCHANGED <<nextJobId, foreground, control, response, fetchResult,
                   loopVars, stateVars, fsVars, nodeVars>>

\* The store made while the remote call is still awaited.
WorkerStoreEarly ==
    /\ background \in {"fetching", "posted"}
    /\ control' = IF response.kind = "ok" THEN 1 ELSE -1
    /\ background' = IF background = "posted" THEN "stored" ELSE background
    /\ UNCHANGED <<nextJobId, foreground, port1, response, fetchResult,
                   loopVars, stateVars, fsVars, nodeVars>>

\* Atomics.store(signal, 0, 1) or Atomics.store(signal, 0, -1)
WorkerStore ==
    /\ background = "posted"
    /\ control' = IF response.kind = "ok" THEN 1 ELSE -1
    /\ background' = "stored"
    /\ UNCHANGED <<nextJobId, foreground, port1, response, fetchResult,
                   loopVars, stateVars, fsVars, nodeVars>>

\* Atomics.notify(signal, 0) wakes the foreground if it sleeps.
WorkerNotify ==
    /\ background = "stored"
    /\ foreground' = IF foreground = "asleep" THEN "receive" ELSE foreground
    /\ background' = "notified"
    /\ UNCHANGED <<nextJobId, control, port1, response, fetchResult,
                   loopVars, stateVars, fsVars, nodeVars>>

\* finally: port.close(); what was posted stays with the other port.
WorkerClose ==
    /\ background = "notified"
    /\ background' = "idle"
    /\ UNCHANGED <<nextJobId, foreground, control, port1, response, fetchResult,
                   loopVars, stateVars, fsVars, nodeVars>>

\* receiveMessageOnPort(port1) until there is a message, then the rest of
\* fetch.
FetchReceive ==
    /\ foreground = "receive"
    /\ port1 # <<>>
    /\ LET r == fetchOutcome(Head(port1))
       IN  /\ fetchResult' = r
           /\ foreground' = IF r.threw THEN "threw" ELSE "returned"
    /\ port1' = Tail(port1)
    /\ UNCHANGED <<nextJobId, background, control, response, loopVars, stateVars,
                   fsVars, nodeVars>>

(***************************************************************************)
(* The restricted adapter with its fetch bridge.  The sandbox and the      *)
(* adapter run on the one foreground thread: an operation runs from its    *)
(* call to its return, and a lookup that fetches stays inside              *)
(* fetcher.fetch(url), blocked, until the worker has answered.             *)
(***************************************************************************)
\* A lookup that hands the foreground back while its fetch is pending.
MainThreadNeverBlocked == TRUE

\* The foreground is inside no call of the adapter.
MainThreadFree == foreground = "idle"

\* lookup of a name for which nothing is fetched: cached, or not a key of
\* KNOWN_RESOURCES.
LookupNoFetch(name) ==
    /\ MainThreadFree
    /\ lookupKnown(nodeCache, RootRemotePath, name, [ok |-> FALSE]).fetched = <<>>
    /\ NodeLookupKnown(name, [ok |-> FALSE])

\* lookup up to Atomics.wait in self.fetcher.fetch(url).
LookupDispatch(name, resp) ==
    /\ mounted = "restricted"
    /\ MainThreadFree
    /\ LET r == lookupKnown(nodeCache, RootRemotePath, name, [ok |-> FALSE])
       IN  /\ r.fetched # <<>>
           /\ answer' = Answer("fetch", [name |-> name], 0, 0, <<>>, r.fetched)
    /\ Dispatch(resp)
    /\ UNCHANGED <<mounted, nodeCache, fileNodes, stream, loopVars, stateVars,
                   fsVars>>

\* lookup from the return or throw of fetch to its own: cache.set and the
\* node, or ENOENT.
LookupReturn ==
    /\ answer.op = "fetch"
    /\ foreground \in {"returned", "threw"}
    /\ LET name == answer.args.name
           reply == IF fetchResult.threw THEN [ok |-> FALSE]
                    ELSE [ok |-> TRUE, data |-> fetchResult.data]
           r == lookupKnown(nodeCache, RootRemotePath, name, reply)
       IN  /\ nodeCache' = r.cache
           /\ fileNodes' = IF r.errno = 0
                           THEN fileNodes \cup {RootRemotePath \o <<name>>}
                           ELSE fileNodes
           /\ answer' = Answer("lookup", [name |-> name], r.errno, 0, <<>>, r.fetched)
    /\ foreground' = "idle"
    /\ UNCHANGED <<mounted, stream, nextJobId, background, control, port1,
                   response, fetchResult, loopVars, stateVars, fsVars>>

\* The programs of the runs explored with deletions.
RecoverPrograms == {"read_ip", "write_a"}

\* A step of such a run under way, other than its being killed or failing.
RunStep ==
    \/ AdoptSnapshot
    \/ BeginStep
    \/ LoopExit
    \/ ApiEndTurn
    \/ \E code \in RecoverPrograms : ApiToolUse(code)
    \/ ApiOther
    \/ \E reply \in FetchReplies : ExecDone(reply)
    \/ Cleanup

vars == <<loopVars, stateVars, fsVars, nodeVars, workerVars>>

\* The loop as main() of mini-agent.js starts it.
LoopMain ==
    /\ LoopInit
    /\ initialState = MainInitialState
    /\ useCache = TRUE

Init == LoopInit /\ StateIdle /\ FsIdle /\ NodeIdle /\ WorkerIdle

Next ==
    \/ \E c \in BOOLEAN : Start(c)
    \/ AdoptSnapshot
    \/ BeginStep
    \/ LoopExit
    \/ ApiEndTurn
    \/ \E code \in Programs : ApiToolUse(code)
    \/ ApiOther
    \/ \E reply \in FetchReplies : ExecDone(reply)
    \/ ApiError
    \/ Cleanup
    \/ Crash

\* Runs, crashes and restarts of agenticLoop for one task, for every initial
\* state a caller may pass.
Spec == Init /\ [][Next]_vars

\* main() of mini-agent.js, run, killed and run again, with cache files
\* deleted by hand between runs.  The collaborator and the sandbox answer.
InitMain == LoopMain /\ StateIdle /\ FsIdle /\ NodeIdle /\ WorkerIdle

NextRecover ==
    \/ \E c \in BOOLEAN : Start(c)
    \/ AdoptSnapshot
    \/ BeginStep
    \/ LoopExit
    \/ ApiEndTurn
    \/ \E code \in RecoverPrograms : ApiToolUse(code)
    \/ ApiOther
    \/ \E reply \in FetchReplies : ExecDone(reply)
    \/ ApiError
    \/ Cleanup
    \/ Crash
    \/ \E k \in Steps : DeleteSnapshot(k)

SpecRecover == InitMain /\ [][NextRecover]_vars /\ WF_vars(RunStep)

\* serialize and deserialize applied to every sample state, at every pair of
\* times, for every set of fields an older record may lack.
InitState == LoopMain /\ StateInit /\ FsIdle /\ NodeIdle /\ WorkerIdle

NextState ==
    \/ \E t \in Times : Serialize(t)
    \/ \E missing \in SUBSET Fields : OlderRecord(missing)
    \/ \E t \in Times : Deserialize(t)

SpecState == InitState /\ [][NextState]_vars

\* Accesses to one adapter, in any order, the bridge answering or failing.
InitFS == LoopMain /\ StateIdle /\ FsInit /\ NodeIdle /\ WorkerIdle

NextFS ==
    \/ \E name \in Names, reply \in FetchReplies : Lookup(name, reply)
    \/ \E remotePath \in Names, reply \in FetchReplies : PreloadFile(remotePath, reply)
    \/ \E path \in AccessPaths, flags \in OpenFlags, reply \in HookReplies :
          Open(path, flags, reply)
    \/ \E path \in AccessPaths, reply \in HookReplies : Stat(path, reply)
    \/ \E path \in AccessPaths, reply \in HookReplies : Ensure(path, reply)
    \/ \E fsPath \in AccessPaths : Unlink(fsPath)

SpecFS == InitFS /\ [][NextFS]_vars

\* Lookups, preloads, restores and the operations on nodes and on one open
\* stream of a mounted adapter, in any order.
InitNode == LoopMain /\ StateIdle /\ FsIdle /\ NodeInit /\ WorkerIdle

NextNode ==
    \/ \E name \in Names, reply \in FetchReplies : NodeLookup(name, reply)
    \/ \E name \in KnownNames, reply \in FetchReplies : NodeLookupKnown(name, reply)
    \/ \E remotePath \in NestedPaths, reply \in FetchReplies :
          NodePreloadFile(remotePath, reply)
    \/ \E networkCache \in NetworkCaches : NodeRestore(networkCache)
    \/ NodeCaptureRestore
    \/ \E remotePath \in fileNodes : NodeOpen(remotePath)
    \/ \E length \in 0..MaxLength : NodeRead(length)
    \/ \E offset \in Offsets, whence \in Whences : NodeLlseek(offset, whence)
    \/ \E dirPath \in {<<>>} \cup fileNodes : NodeReaddir(dirPath)
    \/ \E dirPath \in (IF mounted = "restricted"
                        THEN {RootRemotePath} \cup fileNodes ELSE {}) :
          NodeReaddirRestricted(dirPath)
    \/ \E op \in MutatingOps : NodeMutate(op)

SpecNode == InitNode /\ [][NextNode]_vars

\* Calls of fetch on one SyncFetchWorker, one after the other, the worker
\* thread running beside the foreground.
InitWorker == LoopMain /\ StateIdle /\ FsIdle /\ NodeIdle /\ WorkerInit

NextWorker ==
    \/ \E resp \in RemoteOutcomes : FetchCall(resp)
    \/ WaitNotEqual
    \/ WaitSleep
    \/ WorkerPost
    \/ WorkerStore
    \/ WorkerNotify
    \/ WorkerClose
    \/ FetchReceive

SpecWorker == InitWorker /\ [][NextWorker]_vars

\* The steps of the worker thread for a job; WorkerPost is the settling of
\* the job's network request.
BackgroundStep == WorkerPost \/ WorkerStore \/ WorkerNotify \/ WorkerClose

\* The steps of the foreground inside fetch(url).
ForegroundStep == WaitNotEqual \/ WaitSleep \/ FetchReceive

\* Both threads are scheduled, and every network request settles.
SpecWorkerFair ==
    SpecWorker /\ WF_vars(BackgroundStep) /\ WF_vars(ForegroundStep)

\* Runs of a task under caching from every initial step count up to and
\* beyond maxSteps; the collaborator and the sandbox always answer, a run
\* under way goes on unless the process is killed.
TerminateStates ==
    {NewAgentState([messages |-> <<UserTask>>, stepCount |-> n], 0) :
        n \in 0..(MaxSteps + 1)}

InitTerminate ==
    /\ cacheFiles = EmptyMap
    /\ initialState \in TerminateStates
    /\ callerBefore = initialState
    /\ useCache = TRUE
    /\ pc = "idle"
    /\ clock = 0
    /\ MemoryInit
    /\ GhostInit
    /\ StateIdle /\ FsIdle /\ NodeIdle /\ WorkerIdle

NextTerminate ==
    \/ \E c \in BOOLEAN : Start(c)
    \/ RunStep
    \/ Crash

SpecTerminate == InitTerminate /\ [][NextTerminate]_vars /\ WF_vars(RunStep)

(***************************************************************************)
(* StateCache shared by several tasks.  A file name is the sequence of the *)
(* parts its "-" separate: task-0-step-1.json is <<TaskWord, 0, StepWord,  *)
(* 1>>, and startsWith(`${taskId}-`) is IsPrefix on the parts.             *)
(***************************************************************************)
\* "task-0", "task-0-0" (task-0 followed by "-" is a prefix of it) and
\* "task-1".
DashedTaskId == TaskId \o <<0>>

TaskIds == {TaskId, DashedTaskId, <<TaskWord, 1>>}

\* StateCache.saveState(taskId, k, state) with a state of that task and step.
CacheSave(taskId, k) ==
    /\ cacheFiles' = saveState(cacheFiles, taskId, k,
                               [NewAgentState([stepCount |-> k], clock)
                                   EXCEPT !.metadata.taskId = taskId], clock)
    /\ UNCHANGED <<initialState, useCache, pc, state, aliased, pending, netCache,
                   nodes, outputDir, pyOut, refIsState, clock, calls, adopted,
                   startSnap, captured, executed, overwrote, deletes, lastDeleted,
                   callerBefore>>
    /\ UNCHANGED <<stateVars, fsVars, nodeVars, workerVars>>

\* StateCache.clearCache(taskId)
CacheClear(taskId) ==
    /\ cacheFiles' = clearCache(cacheFiles, taskId)
    /\ UNCHANGED <<initialState, useCache, pc, state, aliased, pending, netCache,
                   nodes, outputDir, pyOut, refIsState, clock, calls, adopted,
                   startSnap, captured, executed, overwrote, deletes, lastDeleted,
                   callerBefore>>
    /\ UNCHANGED <<stateVars, fsVars, nodeVars, workerVars>>

NextCache ==
    \/ \E taskId \in TaskIds, k \in Steps : CacheSave(taskId, k)
    \/ \E taskId \in TaskIds : CacheClear(taskId)

SpecCache == InitMain /\ [][NextCache]_vars

\* Runs of main's task on a disk whose writes may fail.
NextFaulty ==
    \/ \E c \in BOOLEAN : Start(c)
    \/ RunStep
    \/ \E cutShort \in BOOLEAN : SaveError(cutShort)
    \/ Crash

SpecFaulty == InitMain /\ [][NextFaulty]_vars

\* The operations of the sandbox on the restricted adapter, its lookups
\* fetching through the bridge, the worker thread running beside.
InitBridge ==
    LoopMain /\ StateIdle /\ FsIdle /\ NodeInit /\ WorkerInit /\ mounted = "restricted"

NextBridge ==
    \/ \E name \in KnownNames : LookupNoFetch(name)
    \/ \E name \in KnownNames, resp \in RemoteOutcomes : LookupDispatch(name, resp)
    \/ LookupReturn
    \/ WaitNotEqual
    \/ WaitSleep
    \/ WorkerPost
    \/ WorkerStore
    \/ WorkerNotify
    \/ WorkerClose
    \/ FetchReceive
    \/ \E networkCache \in NetworkCaches : MainThreadFree /\ NodeRestore(networkCache)
    \/ \E remotePath \in fileNodes : MainThreadFree /\ NodeOpen(remotePath)
    \/ \E length \in 0..MaxLength : MainThreadFree /\ NodeRead(length)
    \/ \E op \in MutatingOps : MainThreadFree /\ NodeMutate(op)

SpecBridge == InitBridge /\ [][NextBridge]_vars

(***************************************************************************)
(* Properties of the durable step loop.                                    *)
(***************************************************************************)
InRun == pc \in Running \cup {"returned"}

\* An iteration of the main loop begins.
BeginsIteration == AdoptSnapshot \/ BeginStep

RECURSIVE SumCalls(_)
SumCalls(k) == IF k = 0 THEN 0 ELSE calls[k] + SumCalls(k - 1)

\* The first step after `from` that had no snapshot when the run began.
FirstMissing(from) ==
    IF \E k \in Steps : k > from /\ k \notin DOMAIN startSnap
    THEN CHOOSE k \in Steps : /\ k > from
                              /\ k \notin DOMAIN startSnap
                              /\ \A j \in Steps : (j > from /\ j < k) => j \in DOMAIN startSnap
    ELSE MaxSteps + 1

\* The k of a resumed run: snapshots s+1..k were there, k+1 was not.
ResumeK == FirstMissing(callerBefore.stepCount) - 1

ResumedSteps == {j \in Steps : callerBefore.stepCount < j /\ j <= ResumeK}

\* C1: a run that starts with snapshots for the steps up to k, none of them
\* done, and none for k+1 adopts each of the steps up to k without a request
\* to the collaborator, and sends exactly one request for every step from k+1
\* on: maxSteps - k requests when it returns without a final answer.
C1_ResumeCorrect ==
    (useCache /\ InRun /\ \A j \in ResumedSteps : ~startSnap[j]) =>
        /\ \A j \in Steps :
              /\ (j \in ResumedSteps /\ j <= state.stepCount) =>
                     (j \in adopted /\ calls[j] = 0)
              /\ (j > ResumeK /\ j <= state.stepCount) =>
                     (j \notin adopted /\ calls[j] = 1)
              /\ j > state.stepCount => (j \notin adopted /\ calls[j] = 0)
        /\ (pc = "returned" /\ ~state.done) =>
              /\ state.stepCount = MaxSteps
              /\ SumCalls(MaxSteps) = MaxSteps - ResumeK

\* A run resumed from at least one snapshot has executed the remaining steps.
C1_Witness ==
    /\ useCache
    /\ pc = "returned"
    /\ ~state.done
    /\ ResumedSteps # {}
    /\ ResumeK < MaxSteps
    /\ \A j \in ResumedSteps : ~startSnap[j]

\* C2: saveState is never called for a file that exists, and apart from a
\* clear-cache at the start of a run a snapshot file keeps its content.
C2_AppendOnly ==
    [][/\ ~overwrote'
       /\ \A f \in DOMAIN cacheFiles :
             \/ f \in DOMAIN cacheFiles' /\ cacheFiles'[f] = cacheFiles[f]
             \/ Start(TRUE)]_vars

\* A resumed run has executed and saved a step.
C2_Witness ==
    /\ useCache
    /\ pc = "loop"
    /\ adopted # {}
    /\ executed > 0
    /\ existsSync(cacheFiles, getCachePath(TaskId, executed))

\* C3: no iteration begins while the state is done or its stepCount has
\* reached maxSteps.
C3_NoIterationWhenDone ==
    [][BeginsIteration => (~state.done /\ state.stepCount < MaxSteps)]_vars

\* C4: an iteration, adopting or executing, raises stepCount by exactly one,
\* and nothing else in a run changes it.
C4_StepByOne ==
    [][(pc \in Running /\ pc' \in Running \cup {"returned"}) =>
          IF BeginsIteration
          THEN state'.stepCount = state.stepCount + 1
          ELSE state'.stepCount = state.stepCount]_vars

\* A run has both adopted a snapshot and executed a step.
C4_Witness ==
    /\ pc = "returned"
    /\ adopted # {}
    /\ SumCalls(MaxSteps) > 0
    /\ state.stepCount = MaxSteps

C6_SavedAfterCapture ==
    [][\A k \in Steps :
          (~existsSync(cacheFiles, getCachePath(TaskId, k))
           /\ existsSync(cacheFiles', getCachePath(TaskId, k))) =>
              (executed' = k /\ captured' = k)]_vars

\* The step whose snapshot file was deleted: it is missing when the run
\* begins, the snapshots before it are there and none of them is done.
RecoverCase ==
    /\ InRun
    /\ lastDeleted > 0
    /\ lastDeleted \notin DOMAIN startSnap
    /\ \A i \in 1..(lastDeleted - 1) : i \in DOMAIN startSnap /\ ~startSnap[i]

RunEnded == pc \in {"returned", "crashed", "failed"}

\* C7: after the snapshot of step j has been deleted and the others left, the
\* next run adopts the steps before j, executes step j with one request to
\* the collaborator, writes a snapshot for j again, and ends: it returns a
\* state that is done or has reached maxSteps (unless it is killed or fails).
C7_RecoversMissedTurn ==
    /\ [](RecoverCase =>
            /\ \A i \in 1..(lastDeleted - 1) :
                  i <= state.stepCount => (i \in adopted /\ calls[i] = 0)
            /\ lastDeleted <= state.stepCount =>
                  (lastDeleted \notin adopted /\ calls[lastDeleted] = 1)
            /\ (lastDeleted < state.stepCount
                \/ (lastDeleted = state.stepCount /\ pc \in {"loop", "cleanup", "returned"})) =>
                  existsSync(cacheFiles, getCachePath(TaskId, lastDeleted))
            /\ pc = "returned" =>
                  /\ state.stepCount >= lastDeleted
                  /\ (state.done \/ state.stepCount = MaxSteps))
    /\ ((RecoverCase /\ pc = "loop") ~> RunEnded)

\* A snapshot in the middle was deleted; the run re-executed that step, wrote
\* its snapshot and went on to adopt the next one.
C7_Witness ==
    /\ RecoverCase
    /\ pc = "returned"
    /\ lastDeleted > 1
    /\ lastDeleted < MaxSteps
    /\ (lastDeleted + 1) \in adopted
    /\ calls[lastDeleted] = 1
    /\ existsSync(cacheFiles, getCachePath(TaskId, lastDeleted))

\* C8 as stated: the clone shares no container with the caller's state, and
\* the caller's state is what it was before the call.
C8_CloneSharesNothing ==
    /\ aliased = {}
    /\ initialState = callerBefore

\* C8: the clone shares at most the message objects with the caller's state
\* (every other container is a fresh copy), and the caller's state is what it
\* was before the call, during and after every run.
C8_CallerStateUntouched ==
    /\ aliased \subseteq {"messageObjects"}
    /\ initialState = callerBefore

\* A run has pushed messages, set the task id and returned.
C8_Witness ==
    /\ pc = "returned"
    /\ adopted = {}
    /\ "messageObjects" \in aliased
    /\ Len(state.messages) > Len(initialState.messages)
    /\ state.metadata.taskId # initialState.metadata.taskId

(***************************************************************************)
(* Properties of AgentState's serialize and deserialize.                   *)
(***************************************************************************)
\* A field the record has comes back as the state had it; of the metadata,
\* every entry but lastModified.
RoundTrip(f) ==
    IF f = "metadata"
    THEN /\ DOMAIN restored.metadata = DOMAIN subject.metadata
         /\ \A k \in (DOMAIN subject.metadata) \ {"lastModified"} :
               restored.metadata[k] = subject.metadata[k]
    ELSE restored[f] = subject[f]

\* The empty value of a field: no messages, step 0, a capture with empty
\* stdout and stderr, no cache entries, no files, not done, no metadata.
EmptyDefault ==
    [messages      |-> <<>>,
     stepCount     |-> 0,
     outputCapture |-> [stdout |-> <<>>, stderr |-> <<>>],
     networkCache  |-> EmptyMap,
     outputFiles   |-> EmptyMap,
     done          |-> FALSE,
     metadata      |-> EmptyMap]

\* C9 as stated: deserialize(serialize(s)) equals s in every field, the
\* metadata but for lastModified, and a field the record lacks, whichever it
\* is, comes out as that field's empty value.
C9_AllDefaultsEmpty ==
    phase = "restored" =>
        \A f \in Fields :
            IF f \in DOMAIN record THEN RoundTrip(f)
            ELSE restored[f] = EmptyDefault[f]

\* C9: deserialize(serialize(s)) equals s in messages, stepCount,
\* outputCapture, networkCache, outputFiles and done, and in the metadata but
\* for lastModified; a record that lacks one of the first six fields yields
\* that field's empty value, and a record that lacks the metadata yields
\* fresh metadata: no task id, createdAt and lastModified the time of the
\* deserialize.
C9_RoundTripAndDefaults ==
    phase = "restored" =>
        \A f \in Fields :
            IF f \in DOMAIN record THEN RoundTrip(f)
            ELSE IF f = "metadata"
            THEN restored.metadata = [taskId |-> NullTaskId, createdAt |-> now,
                                      lastModified |-> now]
            ELSE restored[f] = EmptyDefault[f]

\* A state with messages, steps, files and a task id went through a record
\* that kept some fields and lacked others, the metadata among them, and was
\* restored later than it was built.
C9_Witness ==
    /\ phase = "restored"
    /\ subject.messages # <<>>
    /\ subject.stepCount > 0
    /\ subject.done
    /\ subject.outputFiles # EmptyMap
    /\ subject.metadata.taskId = TaskId
    /\ {"messages", "stepCount", "done"} \subseteq DOMAIN record
    /\ {"outputFiles", "metadata"} \cap DOMAIN record = {}
    /\ now > 0

(***************************************************************************)
(* Properties of the adapters' fetching.                                   *)
(***************************************************************************)
\* The locator the adapter hands to the bridge for a cache key.
Locator(key) == IF adapter = "mount" THEN pathToURL(key) ELSE pathToURLOfFsPath(key)

\* C10: for every path whose first access fetched successfully and whose
\* cache entry has not been invalidated, the bridge has been called exactly
\* once for it, whichever of lookup, ensureFileSync and preloadFile the
\* accesses went through.
C10_FetchOnce ==
    \A key \in DOMAIN first :
        (first[key] /\ key \notin invalidated) => Count(fetches, Locator(key)) = 1

\* The same of the paths preloadFile was not called for: the accesses through
\* lookup and ensureFileSync.
FetchOnceUnlessPreloaded ==
    \A key \in DOMAIN first :
        (first[key] /\ key \notin invalidated /\ key \notin preloaded) =>
            Count(fetches, Locator(key)) = 1


(***************************************************************************)
(* C11.  A read access (lookup; open for reading, stat) to a path with no  *)
(* cache entry whose fetch fails ends with the error ENOENT thrown by the  *)
(* adapter, the original entry point is not reached, the cache is as it    *)
(* was; and a read access to a path whose fetches have all failed calls    *)
(* the bridge again.                                                       *)
(***************************************************************************)
\* The cache key of the path of an access.
AccessKey(o) == IF adapter = "mount" THEN o.path ELSE normalizeToMount(o.path)

ReadAccess(o) ==
    \/ o.op \in {"lookup", "stat"}
    \/ o.op = "open" /\ shouldFetchForOpen(o.flags)

C11_FailedFetchIsNotFound ==
    [][LET o == outcome'
           key == AccessKey(o)
       IN  ReadAccess(o) /\ key \notin DOMAIN fsCache =>
              /\ o.bridge = "failed" =>
                    /\ o.errno = ENOENT
                    /\ ~o.delegated
                    /\ fsCache' = fsCache
                    /\ fsFiles' = fsFiles
                    /\ fsNodes' = fsNodes
              /\ key \in DOMAIN first => o.bridge # "none"]_vars

\* A second access to a path whose first fetch failed has failed again.
C11_Witness ==
    /\ ReadAccess(outcome)
    /\ outcome.bridge = "failed"
    /\ outcome.errno = ENOENT
    /\ AccessKey(outcome) \notin DOMAIN fsCache
    /\ AccessKey(outcome) \in DOMAIN first
    /\ ~first[AccessKey(outcome)]
    /\ \E url \in DOMAIN fetches : fetches[url] = 2

(***************************************************************************)
(* C12.  In the restricted adapter, a lookup of a name that is not a key   *)
(* of KNOWN_RESOURCES ends with ENOENT and without a call of the bridge,   *)
(* and a lookup of "current-ip" that calls the bridge calls it for         *)
(* KNOWN_RESOURCES["current-ip"] and nothing else.                         *)
(***************************************************************************)
C12_OnlyAllowListed ==
    (mounted = "restricted" /\ answer.op = "lookup") =>
        /\ answer.args.name \notin DOMAIN KNOWN_RESOURCES =>
              answer.errno = ENOENT /\ answer.fetched = <<>>
        /\ (answer.args.name = "current-ip" /\ answer.fetched # <<>>) =>
              answer.fetched = <<KNOWN_RESOURCES["current-ip"]>>

(***************************************************************************)
(* C13.  mknod, rename, rmdir, unlink and setattr throw EROFS in every     *)
(* state, call the bridge for nothing, and leave the cache, the nodes and  *)
(* the stream as they were.                                                *)
(***************************************************************************)
C13_MutationsRefused ==
    [][answer'.op \in MutatingOps =>
          /\ answer'.errno = EROFS
          /\ answer'.fetched = <<>>
          /\ nodeCache' = nodeCache
          /\ fileNodes' = fileNodes
          /\ stream' = stream]_vars

\* unlink was refused in an adapter that holds a file and a node for it.
C13_Witness ==
    /\ answer.op = "unlink"
    /\ answer.errno = EROFS
    /\ fileNodes # {}
    /\ fileNodes \subseteq DOMAIN nodeCache

(***************************************************************************)
(* C14.  A read of length n at position p of a cached file of length L     *)
(* returns max(0, min(L, p + n) - p), never a negative count, and copies   *)
(* the bytes [p, min(p + n, L)) of the file.                               *)
(***************************************************************************)
Max(a, b) == IF a > b THEN a ELSE b

C14_ReadCount ==
    (answer.op = "read" /\ stream.remotePath \in DOMAIN nodeCache) =>
        LET bytes == nodeCache[stream.remotePath]
            L == Len(bytes)
            p == answer.args.position
            n == answer.args.length
        IN  /\ answer.value = Max(0, Min(L, p + n) - p)
            /\ answer.value >= 0
            /\ answer.data = [i \in 1..Max(0, Min(L, p + n) - p) |-> bytes[p + i]]

(***************************************************************************)
(* C15.  llseek with whence SEEK_SET, SEEK_CUR or SEEK_END computes        *)
(* offset, position + offset or size + offset; it throws EINVAL exactly    *)
(* when that is negative, and then the stream's position is as before;     *)
(* otherwise the stream's position is the computed value, which is         *)
(* returned.                                                               *)
(***************************************************************************)
SizeOf(remotePath) ==
    IF remotePath \in DOMAIN nodeCache THEN Len(nodeCache[remotePath]) ELSE 0

Computed(a) ==
    CASE a.whence = SEEK_SET -> a.offset
      [] a.whence = SEEK_CUR -> a.position + a.offset
      [] a.whence = SEEK_END -> SizeOf(stream.remotePath) + a.offset

C15_Seek ==
    (answer.op = "llseek" /\ answer.args.whence \in {SEEK_SET, SEEK_CUR, SEEK_END}) =>
        LET pos == Computed(answer.args)
        IN  /\ answer.errno = EINVAL <=> pos < 0
            /\ pos < 0 => stream.position = answer.args.position
            /\ pos >= 0 =>
                  /\ answer.errno = 0
                  /\ stream.position = pos
                  /\ answer.value = pos

\* A seek back from a position that is not 0 was refused.
C15_Witness ==
    /\ answer.op = "llseek"
    /\ answer.errno = EINVAL
    /\ answer.args.whence = SEEK_CUR
    /\ stream.position > 0

(***************************************************************************)
(* C16.  readdir of the directory with virtual path d returns ".", ".."    *)
(* and, once each and with nothing else, the first path segments that      *)
(* follow d + "/" in the virtual paths of the cached keys; with no cached  *)
(* descendant that is "." and ".." alone.                                  *)
(***************************************************************************)
\* The virtual path of a remote path: the mount point for the root.
VirtualPath(remotePath) ==
    IF remotePath = <<>> THEN mountPoint ELSE mountPoint \o Slash \o remotePath

\* The segments of a text between its "/"s.
RECURSIVE Segments(_)
Segments(text) ==
    LET part == FirstPart(text)
    IN  IF Len(part) = Len(text) THEN <<part>>
        ELSE <<part>> \o Segments(SubSeq(text, Len(part) + 2, Len(text)))

Descendants(d) ==
    {k \in DOMAIN nodeCache :
        /\ Len(Segments(VirtualPath(k))) > Len(Segments(VirtualPath(d)))
        /\ IsPrefix(Segments(VirtualPath(d)), Segments(VirtualPath(k)))}

FollowingSegments(d) ==
    {Segments(VirtualPath(k))[Len(Segments(VirtualPath(d))) + 1] : k \in Descendants(d)}

C16_Readdir ==
    (mounted = "demo" /\ answer.op = "readdir") =>
        LET names == answer.data
            d == answer.args.dirPath
        IN  /\ Len(names) >= 2
            /\ names[1] = Dot
            /\ names[2] = DotDot
            /\ {names[i] : i \in 3..Len(names)} = FollowingSegments(d)
            /\ \A i, j \in 1..Len(names) : names[i] = names[j] => i = j
            /\ Descendants(d) = {} => names = <<Dot, DotDot>>

(***************************************************************************)
(* C17.  The patched open, stat and lstat of a path that is not under the  *)
(* mount point call the bridge for nothing, create no cache entry and no   *)
(* file under the mount point, and end as the original entry point does    *)
(* for the same arguments.                                                 *)
(***************************************************************************)
\* An absolute path that is neither the mount point nor below it.
Outside(path) == StartsWith(path, Slash) /\ ~isWithinMount(path)

C17_OutsideUntouched ==
    [][LET o == outcome'
       IN  (o.op \in {"open", "stat"} /\ Outside(o.path)) =>
              /\ o.bridge = "none"
              /\ fsCache' = fsCache
              /\ \A f \in DOMAIN fsFiles' : isWithinMount(f) => f \in DOMAIN fsFiles
              /\ o.delegated]_vars

(***************************************************************************)
(* C18.  An open of a path under the mount point that has to be            *)
(* materialized calls the bridge exactly when the access mode of the flags *)
(* is not write-only, the access mode of a mode string being that of the   *)
(* flags it stands for.                                                    *)
(***************************************************************************)
\* The flags a mode string stands for: "r" O_RDONLY, "a+" O_RDWR |
\* O_CREAT | O_APPEND.
ModeBits(text) ==
    CASE text = <<114>> -> 0
      [] text = <<97, 43>> -> 1090

AccessMode(flags) ==
    (IF flags.isString THEN ModeBits(flags.text) ELSE flags.bits) % (O_ACCMODE + 1)

C18_FetchIffReadable ==
    [][LET o == outcome'
           key == normalizeToMount(o.path)
       IN  (/\ o.op = "open"
            /\ isWithinMount(o.path)
            /\ extractRemotePath(o.path) # <<>>
            /\ ~(key \in DOMAIN fsCache /\ fileExists(fsFiles, key))) =>
              (o.bridge # "none" <=> AccessMode(o.flags) # O_WRONLY)]_vars

(***************************************************************************)
(* C19.  The locator of a virtual path under the mount point is the scheme,*)
(* "://" and the path without the mount prefix, and paths with distinct    *)
(* suffixes after the prefix have distinct locators.  The hook adapter     *)
(* keeps the locator of a cached path in its cache entry; the demo adapter *)
(* hands the bridge the locator of the remote path it caches.              *)
(***************************************************************************)
\* What follows mountPoint + "/" in a path under the mount point.
Suffix(fsPath) == SubSeq(fsPath, Len(mountPoint) + 2, Len(fsPath))

RECURSIVE Unslashed(_)
Unslashed(text) ==
    IF text # <<>> /\ Head(text) = Slash[1] THEN Unslashed(Tail(text)) ELSE text

FetchEnded == foreground \in {"returned", "threw"}

C20_BytesOnlyWhenOk ==
    FetchEnded =>
        /\ foreground = "returned" =>
              /\ response.kind = "ok"
              /\ ~fetchResult.threw
              /\ fetchResult.data = response.data
        /\ response.kind # "ok" =>
              /\ foreground = "threw"
              /\ fetchResult.threw
              /\ fetchResult.message = response.error.message
              /\ fetchResult.name = response.error.name
              /\ fetchResult.data = <<>>

\* The third call, whose body could not be read, has thrown.
C20_Witness ==
    /\ foreground = "threw"
    /\ response.kind = "body"
    /\ fetchResult.name = "TypeError"
    /\ nextJobId = MaxJobs + 1

(***************************************************************************)
(* C21.  The worker posts the payload of a job before it stores 1 or -1    *)
(* and notifies: while the flag is not 0 the remote call of the job has    *)
(* ended and its payload was posted; when the foreground is past           *)
(* Atomics.wait the payload of this very job is in its port; and fetch     *)
(* has not ended while the worker still awaits the remote call.            *)
(***************************************************************************)
PayloadPosted == background \in {"posted", "stored", "notified", "idle"}

C21_OutcomeBeforeSignal ==
    /\ control # 0 => PayloadPosted
    /\ foreground = "receive" =>
          /\ PayloadPosted
          /\ port1 # <<>>
          /\ Head(port1) = workerPayload(nextJobId - 1, response)
    /\ FetchEnded => PayloadPosted

\* The foreground left Atomics.wait between the worker's store and its
\* notify, and the payload of the second job is there.
C21_Witness ==
    /\ foreground = "receive"
    /\ background = "stored"
    /\ port1 # <<>>
    /\ Head(port1).id = 2

(***************************************************************************)
(* C22.  From the dispatch of a fetch to the cache update or error that    *)
(* ends the lookup that made it, no other fetch is dispatched and no other *)
(* operation of the adapter takes place: the only change to the adapter is *)
(* the end of that lookup, for the name that was dispatched.               *)
(***************************************************************************)
InFlight == foreground \in {"wait", "asleep", "receive", "returned", "threw"}

C23_DisposedOnEveryEnd ==
    [][(pc \in Running /\ pc' \in {"returned", "failed"}) => Cleanup]_vars

(***************************************************************************)
(* C24.  A step whose sandboxed code raises ends like any other step of a  *)
(* tool call: one message is appended, the tool result, with success false *)
(* and the error message at the end of its stderr; the step counter is the *)
(* one the step was begun with, one request made for it; in a run that     *)
(* caches, the snapshot of the step is on disk and holds this transcript;  *)
(* and the loop is at its next iteration.                                  *)
(***************************************************************************)
IsSuffix(s, t) ==
    Len(s) <= Len(t) /\ \A i \in 1..Len(s) : s[i] = t[Len(t) - Len(s) + i]

\* The step being taken is the end of an execution that raised.
ExecRaised ==
    /\ pc = "exec"
    /\ pc' \in {"loop", "cleanup"}
    /\ \E reply \in FetchReplies :
          LET run == runPython(pending, netCache, nodes, outputDir, reply)
          IN  /\ run.raised
              /\ netCache' = run.cache
              /\ nodes' = run.nodes
              /\ outputDir' = run.dir

C24_RaiseIsAResult ==
    [][ExecRaised =>
          LET last == state'.messages[Len(state'.messages)]
              saved == loadState(cacheFiles', TaskId, state'.stepCount, clock')
          IN  /\ state'.messages = Append(state.messages, last)
              /\ last.role = "user"
              /\ ~last.tool_result.success
              /\ IsSuffix(ErrorMessage, last.tool_result.stderr)
              /\ state'.stepCount = state.stepCount
              /\ calls[state.stepCount] = 1
              /\ useCache =>
                    /\ ~saved.isNull
                    /\ saved.state.stepCount = state'.stepCount
                    /\ saved.state.messages = state'.messages
              /\ pc' = "loop"]_vars

\* The loop has gone on to the request of step 2 after the code of step 1
\* raised, the snapshot of step 1 written.
C24_Witness ==
    /\ pc = "api"
    /\ state.stepCount = 2
    /\ Len(state.messages) > 0
    /\ LET last == state.messages[Len(state.messages)]
       IN  /\ "tool_result" \in DOMAIN last
           /\ ~last.tool_result.success
    /\ existsSync(cacheFiles, getCachePath(TaskId, 1))
    /\ adopted = {}

(***************************************************************************)
(* C25.  The tool result of every execution holds exactly what the sandbox *)
(* wrote to stdout and stderr during that execution (and the message of    *)
(* the error it raised, if any), and the object the handlers of the        *)
(* sandbox write into is empty when the execution has ended.               *)
(***************************************************************************)
C25_ResultIsThisExecutionsOutput ==
    [][(pc = "exec" /\ pc' \in {"loop", "cleanup"}) =>
          LET result == state'.messages[Len(state'.messages)].tool_result
          IN  /\ \E reply \in FetchReplies :
                    LET run == runPython(pending, netCache, nodes, outputDir, reply)
                    IN  /\ netCache' = run.cache
                        /\ nodes' = run.nodes
                        /\ outputDir' = run.dir
                        /\ result.success = ~run.raised
                        /\ result.stdout = run.out
                        /\ result.stderr =
                              run.err \o (IF run.raised THEN ErrorMessage ELSE <<>>)
              /\ pyOut' = EmptyCapture]_vars

(***************************************************************************)
(* C26.  An iteration that finds the file of the next step with text that  *)
(* does not parse goes on as one that finds no file: loadState gives null, *)
(* nothing is adopted, and the step is begun from the state in memory with *)
(* a request to the collaborator.                                          *)
(***************************************************************************)
NextPath == getCachePath(TaskId, state.stepCount + 1)

CorruptNext ==
    /\ pc = "loop"
    /\ state.stepCount < MaxSteps
    /\ useCache
    /\ existsSync(cacheFiles, NextPath)
    /\ ~cacheFiles[NextPath].valid

C26_CorruptIsAbsent ==
    [][(CorruptNext /\ pc' # "crashed") =>
          /\ loadState(cacheFiles, TaskId, state.stepCount + 1, clock) =
                loadState(clearCache(cacheFiles, TaskId), TaskId,
                          state.stepCount + 1, clock)
          /\ pc' = "api"
          /\ state' = [state EXCEPT !.stepCount = state.stepCount + 1]
          /\ calls'[state'.stepCount] = calls[state'.stepCount] + 1
          /\ adopted' = adopted
          /\ cacheFiles' = cacheFiles
          /\ netCache' = netCache
          /\ outputDir' = outputDir]_vars

\* Step 1 adopted, the file of step 2 unparsable, step 2 requested.
C26_Witness ==
    /\ pc = "api"
    /\ state.stepCount = 2
    /\ adopted = {1}
    /\ existsSync(cacheFiles, getCachePath(TaskId, 2))
    /\ ~cacheFiles[getCachePath(TaskId, 2)].valid

(***************************************************************************)
(* C27.  A step of a caching run is left towards the next iteration or the *)
(* return only with its snapshot written; a step whose snapshot was not    *)
(* written ends the run as failed.  A run that has returned has on disk    *)
(* the snapshot of every step it executed.                                 *)
(***************************************************************************)
PersistedIn(dir, k) ==
    LET saved == loadState(dir, TaskId, k, clock)
    IN  ~saved.isNull /\ saved.state.stepCount = k

Persisted(k) == PersistedIn(cacheFiles, k)

C27_SaveErrorEndsRun ==
    /\ [](pc = "returned" /\ useCache =>
             \A k \in Steps : calls[k] > 0 => Persisted(k))
    /\ [][(useCache /\ pc \in {"api", "exec"}) =>
             \/ pc' \in {"exec", "failed", "crashed"}
             \/ /\ pc' \in {"loop", "cleanup"}
                /\ PersistedIn(cacheFiles', state'.stepCount)
                /\ state'.stepCount = state.stepCount]_vars

\* The run has failed on the save of step 2, its file cut short, the
\* snapshot of step 1 written before.
C27_Witness ==
    /\ pc = "failed"
    /\ Persisted(1)
    /\ existsSync(cacheFiles, getCachePath(TaskId, 2))
    /\ ~cacheFiles[getCachePath(TaskId, 2)].valid
    /\ ~existsSync(cacheFiles, getCachePath(TaskId, 3))

(***************************************************************************)
(* C28.  agenticLoop started with clearCacheOnStart leaves no snapshot     *)
(* file of any step of the task; and a run that began with no snapshot of  *)
(* the task adopts none: every step after the initial state's step count,  *)
(* up to the one the run has come to, was executed with one request to the *)
(* collaborator.                                                           *)
(***************************************************************************)
C28_ClearedRunReplaysAll ==
    /\ [][Start(TRUE) =>
             \A k \in 0..(MaxSteps + 1) :
                 ~existsSync(cacheFiles', getCachePath(TaskId, k))]_vars
    /\ []((InRun /\ startSnap = EmptyMap) =>
             /\ adopted = {}
             /\ \A k \in Steps :
                   calls[k] = IF callerBefore.stepCount < k /\ k <= state.stepCount
                              THEN 1 ELSE 0)

\* A caching run that began with no snapshot of the task has executed two
\* steps and written their snapshots, adopting none.
C28_Witness ==
    /\ pc = "loop"
    /\ useCache
    /\ startSnap = EmptyMap
    /\ adopted = {}
    /\ state.stepCount = callerBefore.stepCount + 2
    /\ calls[state.stepCount] = 1
    /\ existsSync(cacheFiles, getCachePath(TaskId, state.stepCount - 1))
    /\ existsSync(cacheFiles, getCachePath(TaskId, state.stepCount))

(***************************************************************************)
(* C29.  After restoreNetworkCache the live cache has the keys of the      *)
(* state's networkCache and no other, each with the bytes its base64 text  *)
(* stands for; after captureNetworkCache followed by restoreNetworkCache   *)
(* the live cache is what it was before.                                   *)
(***************************************************************************)
C29_RestoreReplaces ==
    /\ answer.op = "restoreNetworkCache" =>
          /\ DOMAIN nodeCache = DOMAIN answer.args.networkCache
          /\ \A k \in DOMAIN nodeCache :
                /\ nodeCache[k] \in Seq(0..255)
                /\ Base64Encode(nodeCache[k]) = answer.args.networkCache[k]
    /\ answer.op = "captureRestore" => nodeCache = answer.args.before

\* A state holding another key was restored over a live cache that held
\* current-ip, whose node remains.
C29_Witness ==
    /\ answer.op = "restoreNetworkCache"
    /\ RootRemotePath \o <<"current-ip">> \in fileNodes
    /\ DOMAIN nodeCache = {RootRemotePath \o <<"other">>}

\* A live cache of one fetched entry has been captured and restored.
C29_RoundTripWitness ==
    /\ answer.op = "captureRestore"
    /\ DOMAIN nodeCache = {RootRemotePath \o <<"current-ip">>}
    /\ Len(nodeCache[RootRemotePath \o <<"current-ip">>]) = 2

(***************************************************************************)
(* C30.  In the adapter of mini-agent.js, with /network/current-ip the one *)
(* entry of the cache, readdir of the mount root returns ".", ".." and     *)
(* "current-ip" and nothing else.                                          *)
(***************************************************************************)
C30_RootListsCurrentIp ==
    (/\ mounted = "restricted"
     /\ answer.op = "readdirRestricted"
     /\ answer.args.dirPath = RootRemotePath
     /\ DOMAIN nodeCache = {RootRemotePath \o <<"current-ip">>}
     /\ RootRemotePath \o <<"current-ip">> \in fileNodes) =>
        /\ Len(answer.data) = 3
        /\ {answer.data[i] : i \in 1..3} = {".", "..", "current-ip"}

(***************************************************************************)
(* C31.  When the loop adopts a snapshot, the live /output directory then  *)
(* holds the files of the snapshot's outputFiles, with their bytes, and no *)
(* other file.                                                             *)
(***************************************************************************)
Adopts == pc = "loop" /\ adopted' # adopted /\ adopted \subseteq adopted'

C31_OutputIsTheSnapshots ==
    [][Adopts =>
          /\ DOMAIN outputDir' = DOMAIN state'.outputFiles
          /\ \A f \in DOMAIN outputDir' :
                Base64Encode(outputDir'[f]) = state'.outputFiles[f]]_vars

(***************************************************************************)
(* C32.  Every file node lookup has created under the mount has its remote *)
(* path in the adapter's cache, so that read finds the bytes.              *)
(***************************************************************************)
C32_NodesAreCached ==
    \A name \in nodes : RootRemotePath \o <<name>> \in DOMAIN netCache

(***************************************************************************)
(* C33.  When the loop adopts a snapshot, the messages of the state it     *)
(* replaces are a prefix of the messages of the adopted state.             *)
(***************************************************************************)
C33_AdoptionExtendsHistory ==
    [][Adopts => IsPrefix(state.messages, state'.messages)]_vars

(***************************************************************************)
(* C34.  Every snapshot file of the cache directory, named                 *)
(* `${taskId}-step-${k}.json`, holds a record whose stepCount is k and     *)
(* whose metadata.taskId is taskId.                                        *)
(***************************************************************************)
C34_SnapshotRecordsItsKey ==
    \A file \in DOMAIN cacheFiles :
        LET text == cacheFiles[file]
        IN  /\ text.valid
            /\ text.value.stepCount = file[Len(file)]
            /\ file = text.value.metadata.taskId \o <<StepWord, text.value.stepCount>>
            /\ text.value.metadata.taskId = TaskId

\* A run from the initial step count 1 has adopted step 2 and executed
\* step 3, whose snapshot it wrote.
C34_Witness ==
    /\ callerBefore.stepCount = 1
    /\ adopted = {2}
    /\ calls[3] = 1
    /\ existsSync(cacheFiles, getCachePath(TaskId, 3))
    /\ cacheFiles[getCachePath(TaskId, 3)].value.stepCount = 3

(***************************************************************************)
(* C35.  A run of agenticLoop from step count s, its requests and          *)
(* executions all answered, ends (unless the process is killed); its       *)
(* iterations, adopting or executing, number at most maxSteps - s (none if *)
(* s is maxSteps or more), so do its requests to the collaborator, and the *)
(* stepCount of the state it returns is at most max(s, maxSteps).          *)
(***************************************************************************)
Iterations == Cardinality(adopted) + SumCalls(MaxSteps)

C35_Terminates ==
    /\ [](InRun =>
             /\ Iterations <= Max(0, MaxSteps - callerBefore.stepCount)
             /\ SumCalls(MaxSteps) <= Max(0, MaxSteps - callerBefore.stepCount)
             /\ state.stepCount <= Max(callerBefore.stepCount, MaxSteps))
    /\ (pc \in Running ~> RunEnded)

\* A run from step count 0 has returned after maxSteps iterations, some
\* adopting and some executing.
C35_Witness ==
    /\ pc = "returned"
    /\ callerBefore.stepCount = 0
    /\ Iterations = MaxSteps
    /\ adopted # {}
    /\ SumCalls(MaxSteps) > 0

\* A run from a step count beyond maxSteps has returned with no iteration.
C35_WitnessBeyond ==
    /\ pc = "returned"
    /\ callerBefore.stepCount = MaxSteps + 1
    /\ state.stepCount = MaxSteps + 1

(***************************************************************************)
(* C36.  Every call of fetch whose network request settles returns or      *)
(* throws: the foreground sleeps in Atomics.wait only while the notify of  *)
(* its job is still to come, and it leaves the wait only with a message    *)
(* to receive in the port.                                                 *)
(***************************************************************************)
C36_NoLostWakeUp ==
    /\ [](foreground = "asleep" => background \in {"fetching", "posted", "stored"})
    /\ [](foreground = "receive" => port1 # <<>>)
    /\ (foreground \in {"wait", "asleep", "receive"} ~> FetchEnded)

\* The worker has stored, notified and closed the port of the second job
\* before the foreground has begun to wait.
C36_Witness ==
    /\ foreground = "wait"
    /\ background = "idle"
    /\ control # 0
    /\ nextJobId = 3

(***************************************************************************)
(* C37.  clearCache(taskId) leaves the snapshots of every other task as    *)
(* they are: each file of another task is there afterwards, unchanged.     *)
(***************************************************************************)
C37_OtherTasksUntouched ==
    [][\A taskId \in TaskIds :
          CacheClear(taskId) =>
              \A other \in TaskIds \ {taskId}, k \in Steps :
                  LET cachePath == getCachePath(other, k)
                  IN  existsSync(cacheFiles, cachePath) =>
                          /\ existsSync(cacheFiles', cachePath)
                          /\ cacheFiles'[cachePath] = cacheFiles[cachePath]]_vars

=============================================================================
